---- MODULE Spec2Model ----
(***************************************************************************)
(* A model of the dex-bot order-lifecycle engines.                         *)
(* The Grid engine, the tracked-order store of the strategy base class and *)
(* the Spike engine each have their own specification over one state.      *)
(*                                                                         *)
(* Amounts are integers: a price is a number of units of 10^-askPrecision, *)
(* a SELL quantity a number of units of 10^-bidPrecision, a BUY spend a    *)
(* number of units of 10^-askPrecision.  BigNumber arithmetic is exact and *)
(* toFixed rounds half away from zero, which is what RoundHalfUpDiv does.  *)
(***************************************************************************)
EXTENDS Integers, Sequences, FiniteSets, TLC

(***************************************************************************)
(* Bounds of the model.                                                    *)
(***************************************************************************)
\* environment fills (orders leaving the book) in one run
MaxFills == 2
\* trade() calls of the Spike engine in one run
MaxPolls == 3
\* failing calls and crashes in one run
MaxFaults == 1
\* environment fills of Spike orders in one run
MaxSpikeFills == 1

(***************************************************************************)
(* Market metadata and helpers.                                            *)
(***************************************************************************)
\* market.bid_token.precision of the modelled market
BidPrecision == 1
\* market.ask_token.precision of the modelled market
AskPrecision == 1
\* what +new BN(x).dividedBy(0).toFixed(p) gives: NaN, kept apart from every amount
NaN == -1

RECURSIVE Pow10(_)
Pow10(n) == IF n = 0 THEN 1 ELSE 10 * Pow10(n - 1)

Abs(x) == IF x < 0 THEN 0 - x ELSE x

\* BigNumber's ROUND_HALF_UP of n / d for d > 0: to the nearest, halves away from zero
RoundHalfUpDiv(n, d) ==
    IF n >= 0 THEN (2 * n + d) \div (2 * d)
    ELSE 0 - ((2 * (0 - n) + d) \div (2 * d))

RECURSIVE Digits(_)
\* the decimal digits of n >= 0 as character codes
Digits(n) == IF n < 10 THEN <<48 + n>> ELSE Digits(n \div 10) \o <<48 + (n % 10)>>

RECURSIVE PadDigits(_, _)
\* the last p decimal digits of n, zero padded, as character codes
PadDigits(n, p) == IF p = 0 THEN <<>> ELSE PadDigits(n \div 10, p - 1) \o <<48 + (n % 10)>>

\* BigNumber.toFixed(p) of the amount u * 10^-p (u >= 0), as a string of character codes
ToFixedStr(u, p) ==
    Digits(u \div Pow10(p)) \o (IF p > 0 THEN <<46>> \o PadDigits(u % Pow10(p), p) ELSE <<>>)

\* JavaScript's a > b on two strings: by code unit, a proper prefix is smaller
StrGreater(a, b) ==
    \E k \in 1..Len(a) :
        /\ \A j \in 1..(k - 1) : j <= Len(b) /\ a[j] = b[j]
        /\ (k > Len(b) \/ a[k] > b[k])

SeqToSet(s) == {s[k] : k \in 1..Len(s)}

RemoveAt(s, k) == SubSeq(s, 1, k - 1) \o SubSeq(s, k + 1, Len(s))

RECURSIVE SumSeq(_)
SumSeq(s) == IF s = <<>> THEN 0 ELSE Head(s) + SumSeq(Tail(s))

RECURSIVE MinOf(_)
MinOf(S) == LET x == CHOOSE y \in S : TRUE
            IN IF S = {x} THEN x
               ELSE LET m == MinOf(S \ {x}) IN IF x < m THEN x ELSE m

RECURSIVE MaxOf(_)
MaxOf(S) == LET x == CHOOSE y \in S : TRUE
            IN IF S = {x} THEN x
               ELSE LET m == MaxOf(S \ {x}) IN IF x > m THEN x ELSE m

\* getQuantityAndAdjustedTotal(price, totalCost, bidPrecision, askPrecision):
\* totalCost in units of 10^-bidPrecision, price in units of 10^-askPrecision
AdjustedTotal(price, totalCost) == RoundHalfUpDiv(totalCost * price, Pow10(BidPrecision))

Quantity(price, totalCost) ==
    IF price = 0 THEN NaN
    ELSE RoundHalfUpDiv(AdjustedTotal(price, totalCost) * Pow10(BidPrecision), price)

(***************************************************************************)
(* Grid engine (GridBotStrategy).                                          *)
(***************************************************************************)
\* the configured pairs, in configured order
GridSymbols == <<"XPR_XMD">>

GridPairIds == 1..Len(GridSymbols)

\* pair configurations: upperLimit and lowerLimit are the values
\* pairs[i].upperLimit * 10 ** bidPrecision that trade() computes,
\* bidAmountPerLevel is in units of 10^-bidPrecision
GridConfigs ==
    { [upperLimit |-> 17, lowerLimit |-> 1, gridLevels |-> 4, bidAmountPerLevel |-> 40],
      [upperLimit |-> 11, lowerLimit |-> 1, gridLevels |-> 4, bidAmountPerLevel |-> 20],
      [upperLimit |-> 10, lowerLimit |-> 1, gridLevels |-> 3, bidAmountPerLevel |-> 15],
      [upperLimit |-> 3,  lowerLimit |-> 1, gridLevels |-> 4, bidAmountPerLevel |-> 20] }

\* last trade prices the exchange may report, already at askPrecision
GridPrices == {6, 7, 10, 18}

\* token balances the account may hold, per token in that token's units
GridBalances == {5, 95, 1000}

VARIABLES
    gridConfig,      \* [pair -> configuration]
    gridPlacement,   \* config.gridPlacement
    gridMarketKnown, \* [pair -> whether dexapi knows the market]
    oldOrders,       \* [pair -> the tracked orders]
    gridBook,        \* [pair -> the orders resting on the exchange]
    gridCursor,      \* the pair trade() handles next
    gridLast,        \* [pair -> what the last iteration for the pair did]
    gridPrev,        \* [pair -> the branch of the iteration before the last]
    fillsLeft        \* environment fills still allowed

gridVars == <<gridConfig, gridPlacement, gridMarketKnown, oldOrders, gridBook,
              gridCursor, gridLast, gridPrev, fillsLeft>>

\* the state of the tracked-order store and of the Spike engine
VARIABLES
    stateEnv,          \* the environment of the process
    trackedFile,       \* <stateDir>/<instanceId>-tracked.json
    tmpFile,           \* <stateDir>/<instanceId>-tracked.json.tmp
    orderStateFile,    \* <stateDir>/<instanceId>-orders.json
    pairStates,        \* [pair -> PairState]
    spikeMarketKnown,  \* [pair -> whether dexapi knows the market]
    spikeBook,         \* [pair -> the account's orders resting on the exchange]
    spikePhase,        \* where the process is
    spikeCursor,       \* the pair trade() handles next
    orderStateEntries, \* the entries trade() has collected for writeOrderState
    lastLoad,          \* the last loadTrackedOrders call
    lastSave,          \* the last saveTrackedOrders call
    lastShutdown,      \* the last cancelOwnOrders call
    spikeLast,         \* [pair -> what the last iteration for the pair did]
    spikePollsLeft,    \* trade() calls still allowed
    spikeFillsLeft,    \* environment fills still allowed
    spikeFaultsLeft,   \* failing calls and crashes still allowed
    cancelledIds       \* history: the ids of the orders a cancel has taken off the book

spikeVars == <<stateEnv, trackedFile, tmpFile, orderStateFile, pairStates,
               spikeMarketKnown, spikeBook, spikePhase, spikeCursor,
               orderStateEntries, lastLoad, lastSave, lastShutdown, spikeLast,
               spikePollsLeft, spikeFillsLeft, spikeFaultsLeft, cancelledIds>>

\* the state of one caller of placeOrders and of the gateway it stages into
VARIABLES
    rpcActions,    \* dexrpc `actions`: the orders staged and not yet submitted
    placeCall,     \* the running placeOrders call: its orders, loop index and position
    placeLog,      \* history of that call: the orders staged and the batches flushed
    placeBudget    \* calls and failing submissions still allowed

placeVars == <<rpcActions, placeCall, placeLog, placeBudget>>

\* the notification sink (events.ts)
VARIABLES
    evQueue,       \* EventEmitter.queue: the ids of the events waiting
    evBatch,       \* the rest of the batch flush() is working through, head in flight
    evRetryCount,  \* EventEmitter.retryCount
    evProcessing,  \* EventEmitter.isProcessing
    evLog,         \* history: send attempts per event, events dropped and delivered,
                   \* successful sends per event, flush loops running, whether
                   \* flush() was called while a flush was running
    evTimer,       \* EventEmitter.flushInterval is set
    evBudget       \* emits and sends still allowed

eventVars == <<evQueue, evBatch, evRetryCount, evProcessing, evLog, evTimer, evBudget>>

\* the process (index.ts): its polling loop and its shutdown handler
VARIABLES
    runConfig,     \* config.tradeIntervalMS
    runner,        \* where main / execTrade stands and the trade() call in flight
    runBook,       \* the ids of the orders of the account resting on the exchange
    shutdown,      \* where signalHandler stands and the orders it has listed
    runLog         \* history of the run

runVars == <<runConfig, runner, runBook, shutdown, runLog>>

\* one call of getQuantityAndAdjustedTotal
VARIABLES
    qaIn,          \* its arguments
    qaOut          \* what it returned, and the cost of the returned quantity

qaVars == <<qaIn, qaOut>>

\* module start-up (index.ts): the configured pairs and what initialize made of them
VARIABLES
    bootConfig,    \* config.strategy and, per configured pair, the fields it has
    boot           \* where start-up stands, the pairs kept, the pairs orders were placed for

bootVars == <<bootConfig, boot>>

\* one caller of fetchFromAPI (dexapi.js)
VARIABLES
    fetchCall,     \* the running request: its position, retries left, nested calls, attempts
    fetchLog       \* what the callers of the completed requests received

fetchVars == <<fetchCall, fetchLog>>

\* everything outside the two engines
sideVars == <<placeVars, eventVars, runVars, qaVars, bootVars, fetchVars>>

\* everything a placeOrders step leaves alone, everything the sink does, and
\* everything the process loop does
exceptPlace == <<gridVars, spikeVars, eventVars, runVars, qaVars, bootVars, fetchVars>>

exceptEvents == <<gridVars, spikeVars, placeVars, runVars, qaVars, bootVars, fetchVars>>

exceptRun == <<gridVars, spikeVars, placeVars, eventVars, qaVars, bootVars, fetchVars>>

exceptQa == <<gridVars, spikeVars, placeVars, eventVars, runVars, bootVars, fetchVars>>

exceptBoot == <<gridVars, spikeVars, placeVars, eventVars, runVars, qaVars, fetchVars>>

exceptFetch == <<gridVars, spikeVars, placeVars, eventVars, runVars, qaVars, bootVars>>

vars == <<gridVars, spikeVars, sideVars>>

NoIteration ==
    [branch |-> "none", before |-> <<>>, open |-> <<>>, fills |-> <<>>,
     submitted |-> <<>>, balanceLow |-> <<>>, error |-> FALSE,
     sufficient |-> TRUE, maxGrids |-> 0, lastSalePrice |-> 0]

\* gridSize * 10^-bidPrecision .toFixed(askPrecision)
GridPrice(cfg) ==
    RoundHalfUpDiv((cfg.upperLimit - cfg.lowerLimit) * Pow10(AskPrecision),
                   cfg.gridLevels * Pow10(BidPrecision))

\* upperLimit.minus(gridSize.multipliedBy(index)).dividedBy(10 ** bidPrecision).toFixed(askPrecision)
LevelPrice(cfg, index) ==
    RoundHalfUpDiv((cfg.upperLimit * cfg.gridLevels
                      - (cfg.upperLimit - cfg.lowerLimit) * index) * Pow10(AskPrecision),
                   cfg.gridLevels * Pow10(BidPrecision))

\* priceTraded = lastSalePrice * 10 ** bidPrecision, compared with the limits
AboveTraded(limit, lastSalePrice) ==
    limit * Pow10(AskPrecision) >= lastSalePrice * Pow10(BidPrecision)

BelowTraded(limit, lastSalePrice) ==
    limit * Pow10(AskPrecision) =< lastSalePrice * Pow10(BidPrecision)

\* maxGrids after the bounds check
MaxGrids(cfg, lastSalePrice) ==
    IF AboveTraded(cfg.upperLimit, lastSalePrice) /\ AboveTraded(cfg.lowerLimit, lastSalePrice)
    THEN cfg.gridLevels - 1 ELSE cfg.gridLevels

\* index after the bounds check
StartIndex(cfg, lastSalePrice) ==
    IF BelowTraded(cfg.upperLimit, lastSalePrice) /\ BelowTraded(cfg.lowerLimit, lastSalePrice)
    THEN 1 ELSE 0

\* the filter dropped: every level is a valid order
ValidOrderUnfiltered(cfg, price, lastSalePrice) == TRUE

\* new BN(priceDiff).isGreaterThanOrEqualTo(+gridPrice / 2)
ValidOrder(cfg, price, lastSalePrice) ==
    2 * Abs(price - lastSalePrice) >= GridPrice(cfg)

\* the order the loop body pushes for one index, <<>> when it pushes none
LevelOrder(cfg, symbol, index, lastSalePrice) ==
    LET price == LevelPrice(cfg, index)
    IN IF ~ValidOrder(cfg, price, lastSalePrice) THEN <<>>
       ELSE IF price > lastSalePrice
            THEN <<[orderSide |-> "SELL", price |-> price,
                    quantity |-> Quantity(price, cfg.bidAmountPerLevel),
                    marketSymbol |-> symbol]>>
       ELSE IF price < lastSalePrice
            THEN <<[orderSide |-> "BUY", price |-> price,
                    quantity |-> AdjustedTotal(price, cfg.bidAmountPerLevel),
                    marketSymbol |-> symbol]>>
       ELSE <<>>

RECURSIVE LadderFrom(_, _, _, _, _)
\* the orders pushed by the loop for index..maxGrids
LadderFrom(cfg, symbol, index, maxGrids, lastSalePrice) ==
    IF index > maxGrids THEN <<>>
    ELSE LevelOrder(cfg, symbol, index, lastSalePrice)
            \o LadderFrom(cfg, symbol, index + 1, maxGrids, lastSalePrice)

InitialLadder(cfg, symbol, lastSalePrice) ==
    LadderFrom(cfg, symbol, StartIndex(cfg, lastSalePrice),
               MaxGrids(cfg, lastSalePrice), lastSalePrice)

SideQuantities(orders, side) ==
    LET picked == SelectSeq(orders, LAMBDA o : o.orderSide = side)
    IN [k \in 1..Len(picked) |-> picked[k].quantity]

\* sellTotal and buyTotal, as amounts
SellTotal(orders) == SumSeq(SideQuantities(orders, "SELL"))
BuyTotal(orders) == SumSeq(SideQuantities(orders, "BUY"))

\* total > balance as the comparison of trade() evaluates it: total is the string
\* toFixed gives; the balance is what the light API returned, a JSON string
\* (compared by code unit) or a JSON number (the string is converted, compared by value)
ExceedsBalance(total, balance, precision, kind) ==
    IF kind = "string"
    THEN StrGreater(ToFixedStr(total, precision), ToFixedStr(balance, precision))
    ELSE total > balance

\* sellTotal > sellBalances || buyTotal > buyBalances
LowBalances(orders, sellBalances, buyBalances, kind) ==
    \/ ExceedsBalance(SellTotal(orders), sellBalances, BidPrecision, kind)
    \/ ExceedsBalance(BuyTotal(orders), buyBalances, AskPrecision, kind)

\* the guard dropped: the ladder is placed whatever its length
WithinMaxGridsUnguarded(orders, maxGrids) == TRUE

\* this.oldOrders[i].length <= maxGrids
WithinMaxGrids(orders, maxGrids) == Len(orders) =< maxGrids

OrdersOfSide(orders, side) == {o \in SeqToSet(orders) : o.orderSide = side}

\* getLowestAsk / getHighestBid: <<>> stands for null
LowestAsk(orders) ==
    IF OrdersOfSide(orders, "SELL") = {} THEN <<>>
    ELSE <<MinOf({o.price : o \in OrdersOfSide(orders, "SELL")})>>

HighestBid(orders) ==
    IF OrdersOfSide(orders, "BUY") = {} THEN <<>>
    ELSE <<MaxOf({o.price : o \in OrdersOfSide(orders, "BUY")})>>

\* the match made on the opposite side: a resting order no longer matches itself
FilledWrongSide(tracked, openOrders) ==
    ~\E k \in 1..Len(openOrders) :
        /\ openOrders[k].price = tracked.price
        /\ openOrders[k].orderSide # tracked.orderSide

\* openOrders.find(o => o.price === oldOrders[i][j].price) found nothing
Filled(tracked, openOrders) ==
    ~\E k \in 1..Len(openOrders) : openOrders[k].price = tracked.price

\* the counter-order priced from the filled order alone, whatever the working set
CounterOrderRaw(cfg, placement, filled, currentOrders) ==
    IF filled.orderSide = "BUY"
    THEN [orderSide |-> "SELL", price |-> filled.price + GridPrice(cfg),
          quantity |-> Quantity(filled.price + GridPrice(cfg), cfg.bidAmountPerLevel),
          marketSymbol |-> filled.marketSymbol]
    ELSE [orderSide |-> "BUY", price |-> filled.price - GridPrice(cfg),
          quantity |-> AdjustedTotal(filled.price - GridPrice(cfg), cfg.bidAmountPerLevel),
          marketSymbol |-> filled.marketSymbol]

\* the counter-order for a filled tracked order, given the working set
CounterOrder(cfg, placement, filled, currentOrders) ==
    IF filled.orderSide = "BUY"
    THEN LET lowestAsk == LowestAsk(currentOrders)
             sellPrice == IF lowestAsk = <<>> \/ placement
                          THEN filled.price + GridPrice(cfg)
                          ELSE lowestAsk[1] - GridPrice(cfg)
         IN [orderSide |-> "SELL", price |-> sellPrice,
             quantity |-> Quantity(sellPrice, cfg.bidAmountPerLevel),
             marketSymbol |-> filled.marketSymbol]
    ELSE LET highestBid == HighestBid(currentOrders)
             buyPrice == IF highestBid = <<>> \/ placement
                         THEN filled.price - GridPrice(cfg)
                         ELSE highestBid[1] + GridPrice(cfg)
         IN [orderSide |-> "BUY", price |-> buyPrice,
             quantity |-> AdjustedTotal(buyPrice, cfg.bidAmountPerLevel),
             marketSymbol |-> filled.marketSymbol]

\* a pass that loses the listing: it reports nothing and its working set is empty
FillPassForgetful(cfg, placement, old, j, openOrders, acc) ==
    [fills |-> <<>>, latestOrders |-> <<>>, currentOrders |-> <<>>]

RECURSIVE FillPass(_, _, _, _, _, _)
\* the loop over oldOrders[i] from position j: the fill events, the counter-orders
\* (latestOrders) and the working set (currentOrders) it ends with
FillPass(cfg, placement, old, j, openOrders, acc) ==
    IF j > Len(old) THEN acc
    ELSE IF Filled(old[j], openOrders)
         THEN LET order == CounterOrder(cfg, placement, old[j], acc.currentOrders)
              IN FillPass(cfg, placement, old, j + 1, openOrders,
                          [fills |-> Append(acc.fills, old[j]),
                           latestOrders |-> Append(acc.latestOrders, order),
                           currentOrders |-> Append(acc.currentOrders, order)])
         ELSE FillPass(cfg, placement, old, j + 1, openOrders, acc)

\* the guard without its upper bound: any non-empty listing starts a pass
FillDetectionDueAnyCount(openOrders, gridLevels) == Len(openOrders) > 0

\* openOrders.length > 0 && openOrders.length < gridLevels
FillDetectionDue(openOrders, gridLevels) ==
    Len(openOrders) > 0 /\ Len(openOrders) < gridLevels

GridInit ==
    /\ gridConfig \in [GridPairIds -> GridConfigs]
    /\ gridPlacement \in BOOLEAN
    /\ gridMarketKnown \in [GridPairIds -> BOOLEAN]
    /\ oldOrders = [i \in GridPairIds |-> <<>>]
    /\ gridBook = [i \in GridPairIds |-> <<>>]
    /\ gridCursor = 1
    /\ gridLast = [i \in GridPairIds |-> NoIteration]
    /\ gridPrev = [i \in GridPairIds |-> "none"]
    /\ fillsLeft = MaxFills

GridAdvance(i, done) ==
    /\ gridLast' = [gridLast EXCEPT ![i] = done]
    /\ gridPrev' = [gridPrev EXCEPT ![i] = gridLast[i].branch]
    /\ gridCursor' = IF i = Len(GridSymbols) THEN 1 ELSE i + 1

\* getMarketDetails or getOpenOrders throws: the catch logs and emits botError
GridFetchFails(i) ==
    /\ gridCursor = i
    /\ GridAdvance(i, [NoIteration EXCEPT !.branch = "error", !.error = TRUE,
                                          !.before = oldOrders[i]])
    /\ UNCHANGED <<spikeVars, sideVars, gridConfig, gridPlacement, gridMarketKnown, oldOrders, gridBook, fillsLeft>>

\* if (!market) continue
GridInvalidMarket(i) ==
    /\ gridCursor = i
    /\ ~gridMarketKnown[i]
    /\ GridAdvance(i, [NoIteration EXCEPT !.branch = "invalid", !.before = oldOrders[i]])
    /\ UNCHANGED <<spikeVars, sideVars, gridConfig, gridPlacement, gridMarketKnown, oldOrders, gridBook, fillsLeft>>

\* the branch if (!this.oldOrders[i].length): place orders on bot initialization
GridInitialPlacement(i) ==
    /\ gridCursor = i
    /\ gridMarketKnown[i]
    /\ oldOrders[i] = <<>>
    /\ \E lastSalePrice \in GridPrices, sellBalances \in GridBalances,
          buyBalances \in GridBalances, kind \in {"string", "number"},
          submitOk \in BOOLEAN :
        LET cfg == gridConfig[i]
            maxGrids == MaxGrids(cfg, lastSalePrice)
            ladder == InitialLadder(cfg, GridSymbols[i], lastSalePrice)
            sufficient == /\ SellTotal(ladder) =< sellBalances
                          /\ BuyTotal(ladder) =< buyBalances
            base == [NoIteration EXCEPT !.open = gridBook[i], !.sufficient = sufficient,
                                        !.maxGrids = maxGrids,
                                        !.lastSalePrice = lastSalePrice]
        IN IF cfg.gridLevels = 0
           THEN /\ GridAdvance(i, [base EXCEPT !.branch = "nolevels"])
                /\ UNCHANGED <<oldOrders, gridBook>>
           ELSE /\ oldOrders' = [oldOrders EXCEPT ![i] = ladder]
                /\ IF LowBalances(ladder, sellBalances, buyBalances, kind)
                   THEN /\ GridAdvance(i, [base EXCEPT
                              !.branch = "aborted",
                              !.balanceLow =
                                  <<[sellRequired |-> SellTotal(ladder),
                                     sellAvailable |-> sellBalances,
                                     buyRequired |-> BuyTotal(ladder),
                                     buyAvailable |-> buyBalances]>>])
                        /\ UNCHANGED gridBook
                   ELSE IF ~WithinMaxGrids(ladder, maxGrids)
                   THEN /\ GridAdvance(i, [base EXCEPT !.branch = "skipped"])
                        /\ UNCHANGED gridBook
                   ELSE IF submitOk \/ ladder = <<>>
                   THEN /\ GridAdvance(i, [base EXCEPT !.branch = "placed",
                                                       !.submitted = ladder])
                        /\ gridBook' = [gridBook EXCEPT ![i] = @ \o ladder]
                   ELSE /\ GridAdvance(i, [base EXCEPT !.branch = "placefailed",
                                                       !.error = TRUE])
                        /\ UNCHANGED gridBook
    /\ UNCHANGED <<spikeVars, sideVars, gridConfig, gridPlacement, gridMarketKnown, fillsLeft>>

\* the branch else if (openOrders.length > 0 && openOrders.length < gridLevels)
GridFillDetection(i) ==
    /\ gridCursor = i
    /\ gridMarketKnown[i]
    /\ oldOrders[i] # <<>>
    /\ FillDetectionDue(gridBook[i], gridConfig[i].gridLevels)
    /\ \E submitOk \in BOOLEAN :
        LET openOrders == gridBook[i]
            pass == FillPass(gridConfig[i], gridPlacement, oldOrders[i], 1, openOrders,
                             [fills |-> <<>>, latestOrders |-> <<>>,
                              currentOrders |-> openOrders])
            base == [NoIteration EXCEPT !.before = oldOrders[i], !.open = openOrders,
                                        !.fills = pass.fills]
        IN IF submitOk \/ pass.latestOrders = <<>>
           THEN /\ oldOrders' = [oldOrders EXCEPT ![i] = pass.currentOrders]
                /\ gridBook' = [gridBook EXCEPT ![i] = @ \o pass.latestOrders]
                /\ GridAdvance(i, [base EXCEPT !.branch = "fill",
                                               !.submitted = pass.latestOrders])
           ELSE /\ GridAdvance(i, [base EXCEPT !.branch = "fillfailed", !.error = TRUE])
                /\ UNCHANGED <<oldOrders, gridBook>>
    /\ UNCHANGED <<spikeVars, sideVars, gridConfig, gridPlacement, gridMarketKnown, fillsLeft>>

\* neither branch: tracked orders exist and the open-order count is 0 or >= gridLevels
GridIdle(i) ==
    /\ gridCursor = i
    /\ gridMarketKnown[i]
    /\ oldOrders[i] # <<>>
    /\ ~FillDetectionDue(gridBook[i], gridConfig[i].gridLevels)
    /\ GridAdvance(i, [NoIteration EXCEPT !.branch = "idle", !.before = oldOrders[i],
                                          !.open = gridBook[i]])
    /\ UNCHANGED <<spikeVars, sideVars, gridConfig, gridPlacement, gridMarketKnown, oldOrders, gridBook, fillsLeft>>

\* the exchange: a resting order is matched (or cancelled) and leaves the book
GridExchangeFill(i) ==
    /\ fillsLeft > 0
    /\ \E k \in 1..Len(gridBook[i]) :
          gridBook' = [gridBook EXCEPT ![i] = RemoveAt(@, k)]
    /\ fillsLeft' = fillsLeft - 1
    /\ UNCHANGED <<spikeVars, sideVars, gridConfig, gridPlacement, gridMarketKnown, oldOrders,
                   gridCursor, gridLast, gridPrev>>

\* the exchange: a resting order is matched in part, its quantity_curr drops
GridExchangePartialFill(i) ==
    /\ fillsLeft > 0
    /\ \E k \in 1..Len(gridBook[i]) :
          /\ gridBook[i][k].quantity > 1
          /\ gridBook' = [gridBook EXCEPT ![i][k].quantity = @ - 1]
    /\ fillsLeft' = fillsLeft - 1
    /\ UNCHANGED <<spikeVars, sideVars, gridConfig, gridPlacement, gridMarketKnown, oldOrders,
                   gridCursor, gridLast, gridPrev>>

GridNext ==
    \E i \in GridPairIds :
        \/ GridFetchFails(i)
        \/ GridInvalidMarket(i)
        \/ GridInitialPlacement(i)
        \/ GridFillDetection(i)
        \/ GridIdle(i)
        \/ GridExchangeFill(i)
        \/ GridExchangePartialFill(i)

(***************************************************************************)
(* Tracked-order store (TradingStrategyBase) and Spike engine               *)
(* (SpikeBotStrategy).                                                     *)
(***************************************************************************)
\* the configured Spike pairs, in configured order
SpikeSymbols == <<"XPR_XMD", "XBTC_XMD">>

SpikePairIds == 1..Len(SpikeSymbols)

\* TrackedOrder.orderId of an order whose id was not resolved (undefined)
NoOrderId == 0
\* what JSON.stringify writes for a number that is NaN: null
JsonNull == -2

\* process.env: which of ORDER_STATE_DIR and DASHBOARD_INSTANCE_ID are set
StateEnvs == {"both", "noStateDir", "noInstanceId"}

\* a file that does not exist
Absent == [kind |-> "absent", orders |-> <<>>]
\* a file holding a proper prefix of a JSON text: JSON.parse throws on it
Partial == [kind |-> "partial", orders |-> <<>>]
\* a file that holds something else than JSON
Corrupt == [kind |-> "corrupt", orders |-> <<>>]
\* a file that holds JSON without an orders array
NoOrdersArray == [kind |-> "noorders", orders |-> <<>>]
\* JSON.stringify({instanceId, key, timestamp, orders}), the timestamp left out
TrackedRecord(orders) == [kind |-> "record", orders |-> orders]

Configured(env) == env = "both"

\* JSON.stringify then JSON.parse of a number
JsonNumber(x) == IF x = NaN THEN JsonNull ELSE x

\* {...o, _type: type} as JSON.stringify writes it (placedAt left out)
PersistedOrder(o, type) ==
    [orderSide |-> o.orderSide, price |-> JsonNumber(o.price),
     quantity |-> JsonNumber(o.quantity), marketSymbol |-> o.marketSymbol,
     orderId |-> o.orderId, type |-> type]

TagAll(orders, type) == [k \in 1..Len(orders) |-> PersistedOrder(orders[k], type)]

RECURSIVE AllTrackedFrom(_, _)
\* persistAllTrackedOrders: per state, the spike orders then the take-profit orders
AllTrackedFrom(states, n) ==
    IF n > Len(SpikeSymbols) THEN <<>>
    ELSE TagAll(states[n].spikeOrders, "spike")
           \o TagAll(states[n].takeProfitOrders, "takeProfit")
           \o AllTrackedFrom(states, n + 1)

AllTracked(states) == AllTrackedFrom(states, 1)

\* the body of loadTrackedOrders' try block: what it returns, or that it threw
TryLoad(file, readOk) ==
    IF file.kind = "absent" THEN [threw |-> FALSE, orders |-> <<>>]
    ELSE IF ~readOk THEN [threw |-> TRUE, orders |-> <<>>]
    ELSE IF file.kind \in {"partial", "corrupt"} THEN [threw |-> TRUE, orders |-> <<>>]
    ELSE IF file.kind = "record" THEN [threw |-> FALSE, orders |-> file.orders]
    ELSE [threw |-> FALSE, orders |-> <<>>]

\* loadTrackedOrders without its catch
LoadTrackedOrdersUncaught(env, file, readOk) ==
    IF ~Configured(env) THEN [raised |-> FALSE, orders |-> <<>>]
    ELSE [raised |-> TryLoad(file, readOk).threw, orders |-> TryLoad(file, readOk).orders]

LoadTrackedOrders(env, file, readOk) ==
    IF ~Configured(env) THEN [raised |-> FALSE, orders |-> <<>>]
    ELSE IF TryLoad(file, readOk).threw THEN [raised |-> FALSE, orders |-> <<>>]
    ELSE [raised |-> FALSE, orders |-> TryLoad(file, readOk).orders]

\* the state initialize() gives every pair
FreshState ==
    [priceHistory |-> <<>>, currentMA |-> 0, lastOrderMA |-> 0,
     spikeOrders |-> <<>>, takeProfitOrders |-> <<>>]

FreshStates == [n \in SpikePairIds |-> FreshState]

\* pairStates.find(s => s.config.symbol === symbol): the first such pair, 0 if none
FindPair(symbol) ==
    IF \E n \in SpikePairIds : SpikeSymbols[n] = symbol
    THEN MinOf({n \in SpikePairIds : SpikeSymbols[n] = symbol})
    ELSE 0

\* a loaded order as the engine reads it afterwards (nothing reads _type again)
Loaded(o) ==
    [orderSide |-> o.orderSide, price |-> o.price, quantity |-> o.quantity,
     marketSymbol |-> o.marketSymbol, orderId |-> o.orderId]

\* the loaded orders initialize() pushes to one collection, routed by tag alone
RoutedByTag(persisted, n, takeProfit) ==
    LET Mine(o) == (o.type = "takeProfit") = takeProfit
        mine == SelectSeq(persisted, Mine)
    IN [k \in 1..Len(mine) |-> Loaded(mine[k])]

\* the loaded orders initialize() pushes to one collection of pair n
Routed(persisted, n, takeProfit) ==
    LET Mine(o) == /\ FindPair(o.marketSymbol) = n
                   /\ (o.type = "takeProfit") = takeProfit
        mine == SelectSeq(persisted, Mine)
    IN [k \in 1..Len(mine) |-> Loaded(mine[k])]

\* initialize(): fresh pair states, then the orders recovered from disk
Recovered(persisted) ==
    [n \in SpikePairIds |->
        [FreshState EXCEPT !.spikeOrders = Routed(persisted, n, FALSE),
                           !.takeProfitOrders = Routed(persisted, n, TRUE)]]

\* options.maWindow
MaWindow == 2
\* options.rebalanceThresholdPct
RebalanceThresholdPct == 1

\* the SpikeBotPair of every pair: orderAmount in units of 10^-bidPrecision
SpikeConfig == [deviationPct |-> 1, levels |-> 1, orderAmount |-> 20]

\* latest prices the exchange may report, in units of 10^-askPrecision
SpikePrices == {98, 100}

\* the awaited calls of one pair iteration that may throw, and the open-order
\* listing of resolveOrderIds coming back without the order placed last (the
\* API has not caught up with the chain)
SpikeFaults == {"none", "price", "orders", "placeTP", "resolveTP", "withdraw",
                "placeSpike", "resolveSpike", "staleListing"}

\* calculateMA(prices) * prices.length: the moving average is kept as the sum
\* of the window, every use divides by MaWindow
CalculateMA(prices) == SumSeq(prices)

\* new BN(ma).toFixed(askPrecision)
MaPrice(ma) == RoundHalfUpDiv(ma, MaWindow)

\* new BN(ma).times(1 - deviationPct * level / 100).toFixed(askPrecision)
BuyPrice(ma, cfg, level) ==
    RoundHalfUpDiv(ma * (100 - cfg.deviationPct * level), MaWindow * 100)

\* new BN(ma).times(1 + deviationPct * level / 100).toFixed(askPrecision)
SellPrice(ma, cfg, level) ==
    RoundHalfUpDiv(ma * (100 + cfg.deviationPct * level), MaWindow * 100)

RECURSIVE SpikeLevels(_, _, _, _)
SpikeLevels(symbol, ma, cfg, level) ==
    IF level > cfg.levels THEN <<>>
    ELSE << [orderSide |-> "BUY", price |-> BuyPrice(ma, cfg, level),
             quantity |-> AdjustedTotal(BuyPrice(ma, cfg, level), cfg.orderAmount),
             marketSymbol |-> symbol],
            [orderSide |-> "SELL", price |-> SellPrice(ma, cfg, level),
             quantity |-> Quantity(SellPrice(ma, cfg, level), cfg.orderAmount),
             marketSymbol |-> symbol] >>
         \o SpikeLevels(symbol, ma, cfg, level + 1)

BuildSpikeOrders(symbol, ma, cfg) == SpikeLevels(symbol, ma, cfg, 1)

\* a take-profit order on the side of the fill
BuildTakeProfitOrderSameSide(symbol, ma, filledSide, cfg) ==
    IF filledSide = "SELL"
    THEN [orderSide |-> "SELL", price |-> MaPrice(ma),
          quantity |-> Quantity(MaPrice(ma), cfg.orderAmount),
          marketSymbol |-> symbol]
    ELSE [orderSide |-> "BUY", price |-> MaPrice(ma),
          quantity |-> AdjustedTotal(MaPrice(ma), cfg.orderAmount),
          marketSymbol |-> symbol]

\* buildTakeProfitOrder(symbol, ma, filledSide, orderAmount, market)
BuildTakeProfitOrder(symbol, ma, filledSide, cfg) ==
    IF filledSide = "BUY"
    THEN [orderSide |-> "SELL", price |-> MaPrice(ma),
          quantity |-> Quantity(MaPrice(ma), cfg.orderAmount),
          marketSymbol |-> symbol]
    ELSE [orderSide |-> "BUY", price |-> MaPrice(ma),
          quantity |-> AdjustedTotal(MaPrice(ma), cfg.orderAmount),
          marketSymbol |-> symbol]

\* the order ids of a list of tracked orders, unresolved ones left out
TrackedIds(orders) == {orders[k].orderId : k \in 1..Len(orders)} \ {NoOrderId}

\* the order ids of a list of on-chain orders
BookIds(book) == {book[k].order_id : k \in 1..Len(book)}

\* the order ids of the orders a file holds
FileIds(file) == TrackedIds(file.orders)

RECURSIVE NextFree(_, _)
\* the least id from `from` on that is not in use
NextFree(used, from) == IF from \notin used THEN from ELSE NextFree(used, from + 1)

RECURSIVE SubmitOrders(_, _, _)
\* the exchange accepts the orders in turn, each under an id never seen before
SubmitOrders(book, orders, used) ==
    IF orders = <<>> THEN book
    ELSE LET id == NextFree(used \cup BookIds(book), 1)
         IN SubmitOrders(Append(book, [order_id |-> id,
                                       order_side |-> Head(orders).orderSide,
                                       price |-> Head(orders).price,
                                       quantity |-> Head(orders).quantity]),
                         Tail(orders), used)

\* placeOrders(orders) for fewer than ten orders, then the exchange matching the
\* instant-th of them at once (none when instant is not one of them)
PlaceOrders(book, orders, used, instant) ==
    LET placed == SubmitOrders(book, orders, used)
    IN IF instant \in 1..Len(orders) THEN RemoveAt(placed, Len(book) + instant)
       ELSE placed

\* onChainOrders.find(o => o.price === price && o.order_side === side)?.order_id
MatchId(onChain, price, side) ==
    LET hits == {j \in 1..Len(onChain) :
                    onChain[j].price = price /\ onChain[j].order_side = side}
    IN IF hits = {} THEN NoOrderId ELSE onChain[MinOf(hits)].order_id

\* resolveOrderIds(placedOrders, symbol) against the orders on chain (placedAt left out)
ResolveOrderIds(placedOrders, onChain) ==
    [k \in 1..Len(placedOrders) |->
        [orderSide |-> placedOrders[k].orderSide, price |-> placedOrders[k].price,
         quantity |-> placedOrders[k].quantity,
         marketSymbol |-> placedOrders[k].marketSymbol,
         orderId |-> MatchId(onChain, placedOrders[k].price, placedOrders[k].orderSide)]]

\* fetchPairOpenOrders as resolveOrderIds gets it right after a placement
ListedAfterPlacing(book, in) ==
    IF in.fault = "staleListing" /\ book # <<>>
    THEN SubSeq(book, 1, Len(book) - 1) ELSE book

\* getOwnOpenOrders(symbol, trackedIds)
GetOwnOpenOrders(book, trackedIds) ==
    IF trackedIds = {} THEN book
    ELSE LET Own(o) == o.order_id \in trackedIds IN SelectSeq(book, Own)

\* the stillOpen test of fill detection: by id when the order has one, else by price and side
StillOpen(tracked, openOrders) ==
    IF tracked.orderId # NoOrderId
    THEN \E j \in 1..Len(openOrders) : openOrders[j].order_id = tracked.orderId
    ELSE \E j \in 1..Len(openOrders) :
            /\ openOrders[j].price = tracked.price
            /\ openOrders[j].order_side = tracked.orderSide

\* cancelPairOrders / cancelTrackedOrders: the orders whose cancel went through leave the book
CancelOn(book, ids) ==
    LET Kept(o) == o.order_id \notin ids IN SelectSeq(book, Kept)

\* a drift check that also fires at the threshold itself
DriftAtLeast(currentMA, lastOrderMA) ==
    100 * Abs(currentMA - lastOrderMA) >= RebalanceThresholdPct * lastOrderMA

\* driftPct > rebalanceThresholdPct, on moving averages kept as window sums
DriftExceeds(currentMA, lastOrderMA) ==
    100 * Abs(currentMA - lastOrderMA) > RebalanceThresholdPct * lastOrderMA

\* what one pair iteration has done so far: ctx.error is set once a call threw
\* and the catch of the iteration took over
StartOfIteration(state, book, openOrders) ==
    [state |-> state, book |-> book, open |-> openOrders, error |-> FALSE,
     fills |-> <<>>, tpFills |-> <<>>, placed |-> <<>>, cancelled |-> {},
     rebalanced |-> FALSE, ladder |-> <<>>, cancelFailed |-> FALSE]

\* step 4 of trade(): fill detection on the spike orders
DetectSpikeFills(symbol, cfg, ctx, in) ==
    IF ctx.state.spikeOrders = <<>> THEN ctx
    ELSE LET Open(t) == StillOpen(t, ctx.open)
             Gone(t) == ~StillOpen(t, ctx.open)
             remainingSpike == SelectSeq(ctx.state.spikeOrders, Open)
             filled == SelectSeq(ctx.state.spikeOrders, Gone)
             newOrders == [k \in 1..Len(filled) |->
                              BuildTakeProfitOrder(symbol, ctx.state.currentMA,
                                                   filled[k].orderSide, cfg)]
             placedBook == PlaceOrders(ctx.book, newOrders, in.used, in.instant)
         IN IF newOrders = <<>>
            THEN [ctx EXCEPT !.state.spikeOrders = remainingSpike]
            ELSE IF in.fault = "placeTP"
            THEN [ctx EXCEPT !.error = TRUE, !.fills = filled]
            ELSE IF in.fault = "resolveTP"
            THEN [ctx EXCEPT !.error = TRUE, !.fills = filled, !.book = placedBook,
                             !.placed = newOrders]
            ELSE [ctx EXCEPT !.fills = filled, !.book = placedBook,
                             !.placed = newOrders,
                             !.state.takeProfitOrders =
                                 @ \o ResolveOrderIds(newOrders,
                                         ListedAfterPlacing(placedBook, in)),
                             !.state.spikeOrders = remainingSpike]

\* step 5 of trade(): fill detection on the take-profit orders, against the
\* open orders fetched in step 3
DetectTakeProfitFills(ctx) ==
    IF ctx.error \/ ctx.state.takeProfitOrders = <<>> THEN ctx
    ELSE LET Open(t) == StillOpen(t, ctx.open)
             Gone(t) == ~StillOpen(t, ctx.open)
         IN [ctx EXCEPT !.tpFills = SelectSeq(ctx.state.takeProfitOrders, Gone),
                        !.state.takeProfitOrders = SelectSeq(@, Open)]

\* step 6 of trade(): the MA drift check
Rebalance(ctx, in) ==
    IF ctx.error THEN ctx
    ELSE IF /\ ctx.state.lastOrderMA > 0
            /\ ctx.state.spikeOrders # <<>>
            /\ DriftExceeds(ctx.state.currentMA, ctx.state.lastOrderMA)
    THEN LET ids == IF in.cancelOk THEN BookIds(ctx.open) ELSE {}
             failed == ctx.open # <<>> /\ ~in.cancelOk
         IN IF in.fault = "withdraw"
            THEN [ctx EXCEPT !.error = TRUE, !.book = CancelOn(@, ids),
                             !.cancelled = ids, !.cancelFailed = failed]
            ELSE [ctx EXCEPT !.book = CancelOn(@, ids), !.cancelled = ids,
                             !.cancelFailed = failed,
                             !.rebalanced = TRUE,
                             !.state.spikeOrders = <<>>,
                             !.state.takeProfitOrders = <<>>]
    ELSE ctx

\* a placement step that does not look at the tracked spike orders
PlacementAlwaysDue(spikeOrders) == TRUE

\* if (state.spikeOrders.length === 0)
PlacementDue(spikeOrders) == spikeOrders = <<>>

\* step 7 of trade(): placement of the ladder when no spike order is tracked
InitialPlacement(symbol, cfg, ctx, in) ==
    IF ctx.error \/ ~PlacementDue(ctx.state.spikeOrders) THEN ctx
    ELSE LET ids == IF ctx.open # <<>> /\ in.cancelOk THEN BookIds(ctx.open) ELSE {}
             cleared == CancelOn(ctx.book, ids)
             spikeOrders == BuildSpikeOrders(symbol, ctx.state.currentMA, cfg)
             placedBook == PlaceOrders(cleared, spikeOrders, in.used, in.instant)
             base == [ctx EXCEPT !.book = cleared, !.cancelled = @ \cup ids,
                                 !.cancelFailed =
                                     @ \/ (ctx.open # <<>> /\ ~in.cancelOk)]
         IN IF ctx.open # <<>> /\ in.fault = "withdraw"
            THEN [base EXCEPT !.error = TRUE]
            ELSE IF spikeOrders = <<>> THEN base
            ELSE IF in.fault = "placeSpike" THEN [base EXCEPT !.error = TRUE]
            ELSE IF in.fault = "resolveSpike"
            THEN [base EXCEPT !.error = TRUE, !.book = placedBook,
                              !.placed = @ \o spikeOrders, !.ladder = spikeOrders]
            ELSE [base EXCEPT !.book = placedBook, !.placed = @ \o spikeOrders,
                              !.ladder = spikeOrders,
                              !.state.spikeOrders =
                                  ResolveOrderIds(spikeOrders,
                                      ListedAfterPlacing(placedBook, in)),
                              !.state.lastOrderMA = ctx.state.currentMA]

\* steps 4 to 7 of trade() for one pair
TradeSteps(symbol, cfg, state, book, openOrders, in) ==
    InitialPlacement(symbol, cfg,
        Rebalance(
            DetectTakeProfitFills(
                DetectSpikeFills(symbol, cfg,
                                 StartOfIteration(state, book, openOrders), in)),
            in),
        in)

\* a window that drops its oldest price one poll early
PushPriceShiftEarly(priceHistory, latestPrice) ==
    IF Len(priceHistory) + 1 >= MaWindow THEN Tail(Append(priceHistory, latestPrice))
    ELSE Append(priceHistory, latestPrice)

\* a full window that drops the price just fetched instead of its oldest
PushPriceKeepOldest(priceHistory, latestPrice) ==
    IF Len(priceHistory) + 1 > MaWindow THEN priceHistory
    ELSE Append(priceHistory, latestPrice)

\* state.priceHistory after the push and the shift
PushPrice(priceHistory, latestPrice) ==
    IF Len(priceHistory) + 1 > MaWindow THEN Tail(Append(priceHistory, latestPrice))
    ELSE Append(priceHistory, latestPrice)

\* the two files saveTrackedOrders works on
WriteStartInPlace(fs) == [fs EXCEPT !.file = Partial]

\* fs.writeFileSync(tempPath, ...) has opened and truncated the temp file
WriteStart(fs) == [fs EXCEPT !.tmp = Partial]

\* a write that leaves the orders out of the record
WriteEndNoOrders(fs, orders) == [fs EXCEPT !.tmp = TrackedRecord(<<>>)]

\* fs.writeFileSync(tempPath, JSON.stringify(data)) has written all of it
WriteEnd(fs, orders) == [fs EXCEPT !.tmp = TrackedRecord(orders)]

\* fs.renameSync(tempPath, filePath)
Rename(fs) == [file |-> fs.tmp, tmp |-> Absent]

SaveRaisesUncaught(threw) == threw

\* whether saveTrackedOrders raises when its try block threw: the catch only warns
SaveRaises(threw) == FALSE

\* cleanupTrackedOrdersFile()
CleanupTrackedOrdersFile(env, file, unlinkOk) ==
    IF Configured(env) /\ file.kind # "absent" /\ unlinkOk THEN Absent ELSE file

\* writeOrderState(entries): the snapshot file after the call (its own temp
\* file is not modelled)
WriteOrderState(env, file, entries, writeOk) ==
    IF Configured(env) /\ writeOk THEN [kind |-> "record", orders |-> entries]
    ELSE file

NoSpikeIteration ==
    [branch |-> "none", error |-> FALSE, before |-> FreshState, open |-> <<>>,
     fills |-> <<>>, tpFills |-> <<>>, placed |-> <<>>, cancelled |-> {},
     rebalanced |-> FALSE, ladder |-> <<>>, cancelFailed |-> FALSE]

NoLoad == [ran |-> FALSE, file |-> Absent, readOk |-> TRUE, orders |-> <<>>,
           raised |-> FALSE, resting |-> {}]

NoShutdown == [ran |-> FALSE, tracked |-> <<>>, cancelled |-> {}, deleted |-> FALSE]

\* every tracked order of every pair, as cancelOwnOrders collects them
RECURSIVE OwnOrdersFrom(_, _)
OwnOrdersFrom(states, n) ==
    IF n > Len(SpikeSymbols) THEN <<>>
    ELSE states[n].spikeOrders \o states[n].takeProfitOrders
           \o OwnOrdersFrom(states, n + 1)

\* the order ids some part of the state still refers to: the exchange never
\* hands one of them out again
UsedIds ==
    UNION { BookIds(spikeBook[n]) \cup BookIds(spikeLast[n].open)
              \cup TrackedIds(spikeLast[n].before.spikeOrders)
              \cup TrackedIds(spikeLast[n].before.takeProfitOrders)
                : n \in SpikePairIds }
      \cup TrackedIds(OwnOrdersFrom(pairStates, 1))
      \cup TrackedIds(OwnOrdersFrom(lastSave.mem, 1))
      \cup FileIds(trackedFile) \cup FileIds(tmpFile) \cup FileIds(lastSave.record)
      \cup TrackedIds(lastLoad.orders) \cup TrackedIds(lastShutdown.tracked)
      \cup lastLoad.resting \cup cancelledIds

\* a failing call uses up one of the failures the run is allowed
Spend(failures) ==
    /\ failures > 0 => spikeFaultsLeft >= failures
    /\ spikeFaultsLeft' = spikeFaultsLeft - failures

Count(failed) == IF failed THEN 1 ELSE 0

\* trade() is at the iteration of pair n
PollingAt(n) ==
    \/ spikePhase \in {"initialized", "ready"} /\ n = 1 /\ spikePollsLeft > 0
    \/ spikePhase = "polling" /\ spikeCursor = n

\* orderStateEntries when the iteration of pair n starts
EntriesAt(n) == IF n = 1 THEN <<>> ELSE orderStateEntries

IterationRaisesUncaught(threw) == threw

\* whether the body of the for loop of trade() raises when one of its calls
\* threw: the try block spans the whole body and its catch logs and reports
IterationRaises(threw) == FALSE

\* the events.botError calls of a pair iteration: one in the catch block
ErrorEvents(done) == IF done.error THEN 1 ELSE 0

\* the iteration of pair n is over: on to the next pair, or to the persist step
SpikeAdvance(n, entries, done) ==
    /\ spikeLast' = [spikeLast EXCEPT ![n] = done]
    /\ orderStateEntries' = entries
    /\ spikePollsLeft' = IF n = 1 THEN spikePollsLeft - 1 ELSE spikePollsLeft
    /\ IF IterationRaises(done.error)
       THEN spikePhase' = "halted" /\ spikeCursor' = n
       ELSE IF n = Len(SpikeSymbols)
       THEN spikePhase' = "persist" /\ spikeCursor' = 1
       ELSE spikePhase' = "polling" /\ spikeCursor' = n + 1

\* if (!market) continue
SpikeInvalidMarket(n) ==
    /\ PollingAt(n)
    /\ ~spikeMarketKnown[n]
    /\ SpikeAdvance(n, EntriesAt(n),
                    [NoSpikeIteration EXCEPT !.branch = "invalid",
                                             !.before = pairStates[n]])
    /\ UNCHANGED <<gridVars, sideVars, cancelledIds, stateEnv, trackedFile, tmpFile, orderStateFile, pairStates,
                   spikeMarketKnown, spikeBook, lastLoad, lastSave, lastShutdown,
                   spikeFillsLeft, spikeFaultsLeft>>

\* one iteration of the for loop of trade() on a known market
SpikeTradePair(n) ==
    /\ PollingAt(n)
    /\ spikeMarketKnown[n]
    /\ \E latestPrice \in SpikePrices, fault \in SpikeFaults,
          cancelOk \in BOOLEAN, instant \in 0..(2 * SpikeConfig.levels) :
        LET state == pairStates[n]
            priceHistory == PushPrice(state.priceHistory, latestPrice)
            ready == [state EXCEPT !.priceHistory = priceHistory,
                                   !.currentMA = CalculateMA(priceHistory)]
            openOrders ==
                GetOwnOpenOrders(spikeBook[n],
                    TrackedIds(state.spikeOrders \o state.takeProfitOrders))
            entry == [symbol |-> SpikeSymbols[n], totalOrders |-> Len(openOrders),
                      expectedOrders |-> SpikeConfig.levels * 2]
            in == [fault |-> fault, cancelOk |-> cancelOk, instant |-> instant,
                   used |-> UsedIds]
            ctx == TradeSteps(SpikeSymbols[n], SpikeConfig, ready, spikeBook[n],
                              openOrders, in)
            base == [NoSpikeIteration EXCEPT !.before = state]
        IN /\ Spend(Count(fault # "none") + Count(~cancelOk))
           /\ instant > 0 => spikeFillsLeft > 0
           /\ spikeFillsLeft' = IF instant > 0 THEN spikeFillsLeft - 1
                                ELSE spikeFillsLeft
           /\ cancelledIds' = IF \/ fault \in {"price", "orders"}
                                 \/ Len(priceHistory) < MaWindow
                              THEN cancelledIds
                              ELSE cancelledIds \cup ctx.cancelled
           /\ IF fault = "price"
              THEN /\ SpikeAdvance(n, EntriesAt(n),
                                   [base EXCEPT !.branch = "error", !.error = TRUE])
                   /\ UNCHANGED <<pairStates, spikeBook>>
              ELSE IF Len(priceHistory) < MaWindow
              THEN /\ pairStates' = [pairStates EXCEPT
                                        ![n].priceHistory = priceHistory]
                   /\ SpikeAdvance(n, EntriesAt(n), [base EXCEPT !.branch = "warmup"])
                   /\ UNCHANGED spikeBook
              ELSE IF fault = "orders"
              THEN /\ pairStates' = [pairStates EXCEPT ![n] = ready]
                   /\ SpikeAdvance(n, EntriesAt(n),
                                   [base EXCEPT !.branch = "error", !.error = TRUE])
                   /\ UNCHANGED spikeBook
              ELSE /\ pairStates' = [pairStates EXCEPT ![n] = ctx.state]
                   /\ spikeBook' = [spikeBook EXCEPT ![n] = ctx.book]
                   /\ SpikeAdvance(n, Append(EntriesAt(n), entry),
                          [branch |-> IF ctx.error THEN "error" ELSE "traded",
                           error |-> ctx.error, before |-> state,
                           open |-> openOrders, fills |-> ctx.fills,
                           tpFills |-> ctx.tpFills, placed |-> ctx.placed,
                           cancelled |-> ctx.cancelled,
                           rebalanced |-> ctx.rebalanced, ladder |-> ctx.ladder,
                           cancelFailed |-> ctx.cancelFailed])
    /\ UNCHANGED <<gridVars, sideVars, stateEnv, trackedFile, tmpFile, orderStateFile, spikeMarketKnown,
                   lastLoad, lastSave, lastShutdown>>

\* the end of trade() once saveTrackedOrders has returned: writeOrderState
FinishTrade(writeOk) ==
    /\ orderStateFile' = WriteOrderState(stateEnv, orderStateFile,
                                         orderStateEntries, writeOk)
    /\ spikePhase' = "ready"

\* the try block of saveTrackedOrders threw
SaveFailed(writeOk) ==
    IF SaveRaises(TRUE)
    THEN /\ lastSave' = [lastSave EXCEPT !.outcome = "failed", !.raised = TRUE,
                                         !.mem = pairStates]
         /\ spikePhase' = "halted"
         /\ UNCHANGED orderStateFile
    ELSE /\ lastSave' = [lastSave EXCEPT !.outcome = "failed", !.mem = pairStates]
         /\ FinishTrade(writeOk)

\* persistAllTrackedOrders() after the loop of trade(): saveTrackedOrders up to
\* the point where the temp file is open
SpikeSaveBegin ==
    /\ spikePhase = "persist"
    /\ \E openOk \in BOOLEAN, writeOk \in BOOLEAN :
        IF ~Configured(stateEnv)
        THEN /\ openOk /\ writeOk
             /\ Spend(0)
             /\ lastSave' = [lastSave EXCEPT !.outcome = "unconfigured",
                                             !.mem = pairStates]
             /\ FinishTrade(writeOk)
             /\ UNCHANGED <<trackedFile, tmpFile>>
        ELSE IF openOk
        THEN LET fs == WriteStart([file |-> trackedFile, tmp |-> tmpFile])
             IN /\ writeOk
                /\ Spend(0)
                /\ trackedFile' = fs.file
                /\ tmpFile' = fs.tmp
                /\ lastSave' = [lastSave EXCEPT !.outcome = "writing",
                                                !.mem = pairStates]
                /\ spikePhase' = "saving"
                /\ UNCHANGED orderStateFile
        ELSE /\ Spend(1 + Count(~writeOk))
             /\ SaveFailed(writeOk)
             /\ UNCHANGED <<trackedFile, tmpFile>>
    /\ UNCHANGED <<gridVars, sideVars, cancelledIds, spikePollsLeft, stateEnv, pairStates, spikeMarketKnown, spikeBook, spikeCursor,
                   orderStateEntries, lastLoad, lastShutdown, spikeLast,
                   spikeFillsLeft>>

\* fs.writeFileSync(tempPath, JSON.stringify(data)) writes the record or fails
SpikeSaveWrite ==
    /\ spikePhase = "saving"
    /\ \E written \in BOOLEAN, writeOk \in BOOLEAN :
        IF written
        THEN LET fs == WriteEnd([file |-> trackedFile, tmp |-> tmpFile],
                                AllTracked(pairStates))
             IN /\ writeOk
                /\ Spend(0)
                /\ trackedFile' = fs.file
                /\ tmpFile' = fs.tmp
                /\ spikePhase' = "written"
                /\ UNCHANGED <<lastSave, orderStateFile>>
        ELSE /\ Spend(1 + Count(~writeOk))
             /\ SaveFailed(writeOk)
             /\ UNCHANGED <<trackedFile, tmpFile>>
    /\ UNCHANGED <<gridVars, sideVars, cancelledIds, spikePollsLeft, stateEnv, pairStates, spikeMarketKnown, spikeBook, spikeCursor,
                   orderStateEntries, lastLoad, lastShutdown, spikeLast,
                   spikeFillsLeft>>

\* fs.renameSync(tempPath, filePath), then the rest of trade()
SpikeSaveRename ==
    /\ spikePhase = "written"
    /\ \E renamed \in BOOLEAN, writeOk \in BOOLEAN :
        IF renamed
        THEN LET fs == Rename([file |-> trackedFile, tmp |-> tmpFile])
             IN /\ Spend(Count(~writeOk))
                /\ trackedFile' = fs.file
                /\ tmpFile' = fs.tmp
                /\ lastSave' = [lastSave EXCEPT
                                   !.outcome = "saved",
                                   !.record = TrackedRecord(AllTracked(pairStates))]
                /\ FinishTrade(writeOk)
        ELSE /\ Spend(1 + Count(~writeOk))
             /\ SaveFailed(writeOk)
             /\ UNCHANGED <<trackedFile, tmpFile>>
    /\ UNCHANGED <<gridVars, sideVars, cancelledIds, spikePollsLeft, stateEnv, pairStates, spikeMarketKnown, spikeBook, spikeCursor,
                   orderStateEntries, lastLoad, lastShutdown, spikeLast,
                   spikeFillsLeft>>

\* the process stops where it is (kill, power loss): its memory is gone, the
\* files and the exchange stay as they are
SpikeCrash ==
    /\ spikePhase \notin {"down", "stopped", "halted"}
    /\ Spend(1)
    /\ spikePhase' = "down"
    /\ pairStates' = FreshStates
    /\ spikeCursor' = 1
    /\ orderStateEntries' = <<>>
    /\ UNCHANGED <<gridVars, sideVars, cancelledIds, spikePollsLeft, stateEnv, trackedFile, tmpFile, orderStateFile, spikeMarketKnown,
                   spikeBook, lastLoad, lastSave, lastShutdown, spikeLast,
                   spikeFillsLeft>>

\* initialize(options) of a fresh instance
SpikeInitialize ==
    /\ spikePhase = "down"
    /\ \E readOk \in BOOLEAN :
        LET loaded == LoadTrackedOrders(stateEnv, trackedFile, readOk)
        IN /\ Spend(Count(~readOk))
           /\ lastLoad' = [ran |-> TRUE, file |-> trackedFile, readOk |-> readOk,
                           orders |-> loaded.orders, raised |-> loaded.raised,
                           resting |-> UNION {BookIds(spikeBook[n]) :
                                                 n \in SpikePairIds}]
           /\ IF loaded.raised
              THEN spikePhase' = "halted" /\ pairStates' = FreshStates
              ELSE spikePhase' = "initialized"
                   /\ pairStates' = Recovered(loaded.orders)
    /\ UNCHANGED <<gridVars, sideVars, cancelledIds, spikePollsLeft, stateEnv, trackedFile, tmpFile, orderStateFile, spikeMarketKnown,
                   spikeBook, spikeCursor, orderStateEntries, lastSave, lastShutdown,
                   spikeLast, spikeFillsLeft>>

\* cancelOwnOrders() between two polls: the cancel of the orders in `failing` throws
SpikeCancelOwnOrders ==
    /\ spikePhase \in {"initialized", "ready"}
    /\ LET allTracked == OwnOrdersFrom(pairStates, 1)
       IN \E failing \in SUBSET TrackedIds(allTracked), unlinkOk \in BOOLEAN :
            LET cancelled == TrackedIds(allTracked) \ failing
                cleaned == CleanupTrackedOrdersFile(stateEnv, trackedFile, unlinkOk)
            IN /\ Spend(Count(failing # {}) + Count(~unlinkOk))
               /\ spikeBook' = [n \in SpikePairIds |->
                                   CancelOn(spikeBook[n], cancelled)]
               /\ trackedFile' = cleaned
               /\ cancelledIds' = cancelledIds \cup cancelled
               /\ lastShutdown' = [ran |-> TRUE, tracked |-> allTracked,
                                   cancelled |-> cancelled,
                                   deleted |-> trackedFile # Absent /\ cleaned = Absent]
    /\ spikePhase' = "stopped"
    /\ UNCHANGED <<gridVars, sideVars, spikePollsLeft, stateEnv, tmpFile, orderStateFile, pairStates, spikeMarketKnown,
                   spikeCursor, orderStateEntries, lastLoad, lastSave, spikeLast,
                   spikeFillsLeft>>

\* the exchange: a resting order is matched and leaves the book
SpikeExchangeFill(n) ==
    /\ spikePhase \notin {"stopped", "halted"}
    /\ spikeFillsLeft > 0
    /\ \E k \in 1..Len(spikeBook[n]) :
          spikeBook' = [spikeBook EXCEPT ![n] = RemoveAt(@, k)]
    /\ spikeFillsLeft' = spikeFillsLeft - 1
    /\ UNCHANGED <<gridVars, sideVars, cancelledIds, spikePollsLeft, stateEnv, trackedFile, tmpFile, orderStateFile, pairStates,
                   spikeMarketKnown, spikePhase, spikeCursor, orderStateEntries,
                   lastLoad, lastSave, lastShutdown, spikeLast, spikeFaultsLeft>>

\* ---- placeOrders and the gateway's staging list ----

\* the longest order list handed to placeOrders
MaxOrders == 21

\* consecutive placeOrders calls of one process
MaxCalls == 2

\* i % 10 === 0: the size of a batch
BatchSize == 10

NoCall == [n |-> 0, i |-> 0, pc |-> "idle", id |-> 0]

NoPlaceLog == [staged |-> <<>>, flushes |-> <<>>, pauses |-> 0, raised |-> FALSE]

\* if (i % 10 === 0 || i === orders.length)
FlushDue(i, n) == i % BatchSize = 0 \/ i = n

\* placeOrders(orders) is called with a list of n orders; the loop is skipped
\* when the list is empty
PlaceOrdersCall ==
    /\ placeCall.pc \in {"idle", "returned", "raised"}
    /\ placeBudget.calls > 0
    /\ \E n \in 0..MaxOrders :
          placeCall' = [n |-> n, i |-> 1,
                        pc |-> IF n = 0 THEN "returned" ELSE "stage",
                        id |-> placeCall.id + 1]
    /\ placeLog' = NoPlaceLog
    /\ placeBudget' = [placeBudget EXCEPT !.calls = @ - 1]
    /\ UNCHANGED <<exceptPlace, rpcActions>>

\* await prepareLimitOrder(orders[i-1]): the order joins the staged actions
PlaceStage ==
    /\ placeCall.pc = "stage"
    /\ rpcActions' = Append(rpcActions, [call |-> placeCall.id, index |-> placeCall.i])
    /\ placeLog' = [placeLog EXCEPT !.staged = Append(@, placeCall.i)]
    /\ placeCall' = IF FlushDue(placeCall.i, placeCall.n)
                    THEN [placeCall EXCEPT !.pc = "flush"]
                    ELSE [placeCall EXCEPT !.i = @ + 1]
    /\ UNCHANGED <<exceptPlace, placeBudget>>

\* await submitProcessAction(); await submitOrders(): the staged actions go
\* out in one transaction and the list is emptied, or the transaction is
\* rejected, submitOrders throws before `actions = []` and placeOrders raises
PlaceFlush ==
    /\ placeCall.pc = "flush"
    /\ \E ok \in BOOLEAN :
        IF ok
        THEN /\ placeLog' = [placeLog EXCEPT !.flushes = Append(@, rpcActions)]
             /\ rpcActions' = <<>>
             /\ placeCall' = [placeCall EXCEPT !.pc = "pause"]
             /\ UNCHANGED placeBudget
        ELSE /\ placeBudget.faults > 0
             /\ placeBudget' = [placeBudget EXCEPT !.faults = @ - 1]
             /\ placeLog' = [placeLog EXCEPT !.raised = TRUE]
             /\ placeCall' = [placeCall EXCEPT !.pc = "raised"]
             /\ UNCHANGED rpcActions
    /\ UNCHANGED exceptPlace

\* events.gridPlaced(...); await delay(delayTime); then the next order, or
\* the end of the loop
PlacePause ==
    /\ placeCall.pc = "pause"
    /\ placeLog' = [placeLog EXCEPT !.pauses = @ + 1]
    /\ placeCall' = IF placeCall.i = placeCall.n
                    THEN [placeCall EXCEPT !.pc = "returned"]
                    ELSE [placeCall EXCEPT !.i = @ + 1, !.pc = "stage"]
    /\ UNCHANGED <<exceptPlace, rpcActions, placeBudget>>

\* ---- the notification sink ----

\* events that may be emitted in a run
MaxEvents == 3

\* responses of the endpoint in a run
MaxSends == 7

\* private maxRetries = 3
MaxRetries == 3

\* private batchSize = 10
EventBatchSize == 10

EventIds == 1..MaxEvents

\* the first n elements of a sequence, all of it when it is shorter
Take(q, n) == SubSeq(q, 1, MinOf({n, Len(q)}))

Drop(q, n) == SubSeq(q, MinOf({n, Len(q)}) + 1, Len(q))

NoEventLog ==
    [attempts |-> [e \in EventIds |-> 0], dropped |-> {}, delivered |-> {},
     deliveries |-> [e \in EventIds |-> 0], loops |-> 0, overlapped |-> FALSE]

\* the guard without the isProcessing test
FlushGuardNoLock(processing, queue) == queue # <<>>

\* if (this.isProcessing || this.queue.length === 0 || !this.config?.enabled) return
FlushGuard(processing, queue) == ~processing /\ queue # <<>>

\* a failed event goes back to the queue whatever the retry count is
RequeuedAlways(success, retryCount) == ~success

\* if (!success) { this.retryCount++; if (this.retryCount < this.maxRetries) unshift }
Requeued(success, retryCount) == ~success /\ retryCount < MaxRetries

\* a batch is spliced off the queue and its first event is sent
StartFlush(queue) ==
    /\ evProcessing' = TRUE
    /\ evBatch' = Take(queue, EventBatchSize)
    /\ evQueue' = Drop(queue, EventBatchSize)

\* flush() from its guard to the first await: one more loop is running
EnterFlush(queue) ==
    /\ StartFlush(queue)
    /\ evLog' = [evLog EXCEPT !.loops = @ + 1]

\* emit(): the payload is queued; an error, bot_started or bot_stopped event
\* calls flush() at once, which returns when a flush is already running
EventEmit ==
    /\ evBudget.emits > 0
    /\ \E urgent \in BOOLEAN :
        LET id == MaxEvents - evBudget.emits + 1
            queue == Append(evQueue, id)
        IN IF urgent /\ FlushGuard(evProcessing, queue)
           THEN EnterFlush(queue)
           ELSE /\ evQueue' = queue
                /\ evLog' = [evLog EXCEPT !.overlapped = @ \/ (urgent /\ evProcessing)]
                /\ UNCHANGED <<evBatch, evProcessing>>
    /\ evBudget' = [evBudget EXCEPT !.emits = @ - 1]
    /\ UNCHANGED <<exceptEvents, evRetryCount, evTimer>>

\* setInterval(() => this.flush(), 5000)
EventFlushTimer ==
    /\ evTimer
    /\ FlushGuard(evProcessing, evQueue)
    /\ EnterFlush(evQueue)
    /\ UNCHANGED <<exceptEvents, evRetryCount, evTimer, evBudget>>

\* shutdown(): the interval is cleared and flush() is called once more
EventShutdown ==
    /\ evTimer
    /\ evTimer' = FALSE
    /\ IF FlushGuard(evProcessing, evQueue)
       THEN EnterFlush(evQueue)
       ELSE /\ evLog' = [evLog EXCEPT !.overlapped = @ \/ evProcessing]
            /\ UNCHANGED <<evQueue, evBatch, evProcessing>>
    /\ UNCHANGED <<exceptEvents, evRetryCount, evBudget>>

\* sendEvent(event) has returned: flush() counts the failure, re-queues or
\* drops the event, and goes on to the next event, the next batch, or returns
EventSent ==
    /\ evProcessing
    /\ evBatch # <<>>
    /\ evBudget.sends > 0
    /\ \E success \in BOOLEAN :
        LET event == Head(evBatch)
            retryCount == evRetryCount + 1
            requeued == Requeued(success, retryCount)
            dropped == ~success /\ ~requeued
            queue == IF requeued THEN <<event>> \o evQueue ELSE evQueue
            returns == Tail(evBatch) = <<>> /\ queue = <<>>
        IN /\ evRetryCount' = IF success \/ dropped THEN 0 ELSE retryCount
           /\ evLog' = [evLog EXCEPT
                           !.attempts[event] = @ + 1,
                           !.dropped = IF dropped THEN @ \cup {event} ELSE @,
                           !.delivered = IF success THEN @ \cup {event} ELSE @,
                           !.deliveries[event] = IF success THEN @ + 1 ELSE @,
                           !.loops = IF returns THEN @ - 1 ELSE @]
           /\ IF Tail(evBatch) # <<>>
              THEN /\ evBatch' = Tail(evBatch)
                   /\ evQueue' = queue
                   /\ UNCHANGED evProcessing
              ELSE IF queue # <<>>
              THEN StartFlush(queue)
              ELSE /\ evBatch' = <<>>
                   /\ evQueue' = <<>>
                   /\ evProcessing' = FALSE
    /\ evBudget' = [evBudget EXCEPT !.sends = @ - 1]
    /\ UNCHANGED <<exceptEvents, evTimer>>

\* no notification sink is modelled
EventsOff ==
    /\ evQueue = <<>>
    /\ evBatch = <<>>
    /\ evRetryCount = 0
    /\ evProcessing = FALSE
    /\ evLog = NoEventLog
    /\ evTimer = FALSE
    /\ evBudget = [emits |-> 0, sends |-> 0]

\* ---- the process: polling loop and shutdown handler ----

\* polls of one run
MaxRunPolls == 3

\* await delay(15000) after the first trade() of main
StartupDelayMS == 15000

\* values of config.tradeIntervalMS
TradeIntervals == {5000, 15000, 60000}

\* the pairs of the configured strategy, by position
RunPairIds == 1..Len(SpikeSymbols)

TradeNotAwaited == FALSE

\* `await currentStrategy.trade()`: main and execTrade wait for the poll to return
TradeAwaited == TRUE

Running == runner.pc # "exited"

\* trade() is called and runs up to the first await of its first pair
CallTrade(waited) ==
    /\ runner' = [runner EXCEPT !.pc = IF TradeAwaited THEN "trade" ELSE "delay",
                                !.polls = @ + 1, !.inFlight = @ + 1,
                                !.pair = 1, !.stage = "fetch"]
    /\ runLog' = [runLog EXCEPT !.order = <<>>, !.waited = waited]

\* main: the first trade()
RunMain ==
    /\ runner.pc = "start"
    /\ CallTrade(0)
    /\ UNCHANGED <<exceptRun, runConfig, runBook, shutdown>>

\* the delay of main (15000) or of execTrade (tradeIntervalMS) is over:
\* execTrade() runs and calls trade()
RunDelayElapsed ==
    /\ runner.pc = "delay"
    /\ runner.polls < MaxRunPolls
    /\ CallTrade(IF runner.polls = 1 THEN StartupDelayMS
                 ELSE runConfig.tradeIntervalMS)
    /\ UNCHANGED <<exceptRun, runConfig, runBook, shutdown>>

\* the iteration of the pair in flight is over: the for loop goes on to the
\* next pair; after the last one trade() returns and the caller starts its delay
EndOfPair ==
    /\ runLog' = [runLog EXCEPT
                     !.order = Append(@, runner.pair),
                     !.lateSubmit = @ \/ (runner.stage = "submit"
                                            /\ shutdown.pc = "cancelling")]
    /\ runner' = IF runner.pair < Len(SpikeSymbols)
                 THEN [runner EXCEPT !.pair = @ + 1, !.stage = "fetch"]
                 ELSE [runner EXCEPT !.pair = 0, !.inFlight = @ - 1,
                                     !.pc = IF @ = "trade" THEN "delay" ELSE @]

\* the market data and open orders of the pair have arrived: the iteration
\* submits orders or has nothing to do
RunPairFetched ==
    /\ Running
    /\ runner.pair \in RunPairIds
    /\ runner.stage = "fetch"
    /\ \E places \in BOOLEAN :
        IF places
        THEN runner' = [runner EXCEPT !.stage = "submit"] /\ UNCHANGED runLog
        ELSE EndOfPair
    /\ UNCHANGED <<exceptRun, runConfig, runBook, shutdown>>

\* placeOrders of the pair has been flushed: its order rests on the exchange
RunPairSubmitted ==
    /\ Running
    /\ runner.pair \in RunPairIds
    /\ runner.stage = "submit"
    /\ runBook' = runBook \cup {2 * runner.polls + runner.pair}
    /\ EndOfPair
    /\ UNCHANGED <<exceptRun, runConfig, shutdown>>

\* SIGINT, SIGTERM or SIGQUIT: signalHandler emits bot_stopped, shuts the
\* sink down and calls cancelAllOrders, which asks for the open orders
SignalArrives ==
    /\ Running
    /\ shutdown.pc = "none"
    /\ runner.polls > 0
    /\ shutdown' = [shutdown EXCEPT !.pc = "listing"]
    /\ runLog' = [runLog EXCEPT !.signalledInPoll = runner.inFlight > 0]
    /\ UNCHANGED <<exceptRun, runConfig, runner, runBook>>

\* process.exit()
Exit ==
    /\ runner' = [runner EXCEPT !.pc = "exited"]
    /\ runLog' = [runLog EXCEPT !.aborted = runner.inFlight > 0]

\* cancelAllOrders has the open orders: with none it returns and the process
\* exits, else it sends one transaction cancelling all of them
SignalListed ==
    /\ Running
    /\ shutdown.pc = "listing"
    /\ IF runBook = {}
       THEN /\ shutdown' = [pc |-> "exited", list |-> {}]
            /\ Exit
       ELSE /\ shutdown' = [pc |-> "cancelling", list |-> runBook]
            /\ UNCHANGED <<runner, runLog>>
    /\ UNCHANGED <<exceptRun, runConfig, runBook>>

\* the cancel transaction is back (a failure is caught and logged), then
\* process.exit()
SignalCancelled ==
    /\ Running
    /\ shutdown.pc = "cancelling"
    /\ \E ok \in BOOLEAN :
          runBook' = IF ok THEN runBook \ shutdown.list ELSE runBook
    /\ shutdown' = [shutdown EXCEPT !.pc = "exited"]
    /\ Exit
    /\ UNCHANGED <<exceptRun, runConfig>>

NoRunLog == [order |-> <<>>, waited |-> 0, lateSubmit |-> FALSE,
             signalledInPoll |-> FALSE, aborted |-> FALSE]

\* the process loop is not modelled
RunOff ==
    /\ runConfig = [tradeIntervalMS |-> StartupDelayMS]
    /\ runner = [pc |-> "exited", polls |-> 0, inFlight |-> 0, pair |-> 0,
                 stage |-> "fetch"]
    /\ runBook = {}
    /\ shutdown = [pc |-> "none", list |-> {}]
    /\ runLog = NoRunLog

\* ---- getQuantityAndAdjustedTotal for any precisions ----

\* the largest price, in units of 10^-askPrecision
MaxQaPrice == 12

\* the largest total cost, in units of 10^-costPrecision
MaxQaCost == 20

\* the largest token precision
MaxQaPrecision == 2

\* BigNumber's toFixed of n / d for any d # 0
RoundDiv(n, d) == IF d > 0 THEN RoundHalfUpDiv(n, d) ELSE RoundHalfUpDiv(0 - n, 0 - d)

\* +new BN(totalCost).times(price).toFixed(askPrecision), in units of
\* 10^-askPrecision; the price is in.price / 10^askPrecision and the total
\* cost in.totalCost / 10^costPrecision
QaAdjustedTotal(in) == RoundDiv(in.totalCost * in.price, Pow10(in.costPrecision))

\* a quantity cut off at bidPrecision instead of rounded
QaQuantityTruncated(in) ==
    (QaAdjustedTotal(in) * Pow10(in.bidPrecision)) \div in.price

\* +new BN(adjustedTotal).dividedBy(price).toFixed(bidPrecision), in units of
\* 10^-bidPrecision
QaQuantity(in) == RoundDiv(QaAdjustedTotal(in) * Pow10(in.bidPrecision), in.price)

\* round(quantity * price, askPrecision), in units of 10^-askPrecision
QaCostOf(quantity, in) == RoundDiv(quantity * in.price, Pow10(in.bidPrecision))

\* the call returns
QaCompute ==
    /\ ~qaOut.done
    /\ qaOut' = [done |-> TRUE, adjustedTotal |-> QaAdjustedTotal(qaIn),
                 quantity |-> QaQuantity(qaIn),
                 cost |-> QaCostOf(QaQuantity(qaIn), qaIn)]
    /\ UNCHANGED <<exceptQa, qaIn>>

NoQaOut == [done |-> FALSE, adjustedTotal |-> 0, quantity |-> 0, cost |-> 0]

\* no call of getQuantityAndAdjustedTotal is modelled on its own
QaOff ==
    /\ qaIn = [price |-> 1, totalCost |-> 1, costPrecision |-> 0,
               bidPrecision |-> 0, askPrecision |-> 0]
    /\ qaOut = [NoQaOut EXCEPT !.done = TRUE]

\* ---- module start-up: initialize() and the pairs it accepts ----

\* the pairs of the configuration file, by position
BootPairIds == 1..2

\* the fields parseEachPairConfig asks of a gridBot pair
GridFields == {"symbol", "upperLimit", "lowerLimit", "gridLevels", "bidAmountPerLevel"}

\* the fields of a SpikeBotPair
SpikeFields == {"symbol", "deviationPct", "levels", "orderAmount"}

RequiredFields(strategy) == IF strategy = "gridBot" THEN GridFields ELSE SpikeFields

\* the pair has every field of its strategy
Complete(strategy, fields) == RequiredFields(strategy) \subseteq fields

\* parseEachPairConfig(pairs): it throws at the first pair that lacks a field,
\* else it returns every pair
ParseEachPairConfig(pairs) ==
    IF \E i \in BootPairIds : ~Complete("gridBot", pairs[i])
    THEN [threw |-> TRUE, pairs |-> {}]
    ELSE [threw |-> FALSE, pairs |-> BootPairIds]

\* initialize(options) of the configured strategy: the Grid engine parses the
\* pairs and keeps none when that throws (this.pairs is assigned after the
\* call); the Spike engine maps every pair to a pair state and checks nothing
Initialize(strategy, pairs) ==
    IF strategy = "gridBot"
    THEN [rejected |-> ParseEachPairConfig(pairs).threw,
          pairs |-> ParseEachPairConfig(pairs).pairs]
    ELSE [rejected |-> FALSE, pairs |-> BootPairIds]

\* whether an iteration of trade() that reaches the placement step hands
\* orders of the pair to placeOrders.  Grid pairs are complete.  A Spike pair
\* without a symbol has no market and is skipped, one without levels builds an
\* empty ladder (level <= undefined is false); one without deviationPct or
\* orderAmount builds its 2 * levels orders with NaN prices or quantities
PlacesOrders(strategy, fields) ==
    IF strategy = "gridBot" THEN TRUE
    ELSE "symbol" \in fields /\ "levels" \in fields

\* currentStrategy.initialize(config[config.strategy]), not awaited; main goes on
BootInitialize ==
    /\ boot.pc = "start"
    /\ LET made == Initialize(bootConfig.strategy, bootConfig.pairs)
       IN boot' = [boot EXCEPT !.pc = "main", !.rejected = made.rejected,
                               !.pairs = made.pairs]
    /\ UNCHANGED <<exceptBoot, bootConfig>>

\* the rejected promise of initialize() has no handler: the runtime ends the
\* process on it (or only warns, and then this step is never taken)
BootUnhandledRejection ==
    /\ boot.pc = "main"
    /\ boot.rejected
    /\ boot' = [boot EXCEPT !.pc = "exited"]
    /\ UNCHANGED <<exceptBoot, bootConfig>>

\* an iteration of trade() for pair i that reaches its placement step
BootTradePair(i) ==
    /\ boot.pc = "main"
    /\ i \in boot.pairs
    /\ boot' = [boot EXCEPT !.polled = @ \cup {i},
                            !.handed = IF PlacesOrders(bootConfig.strategy,
                                                       bootConfig.pairs[i])
                                       THEN @ \cup {i} ELSE @]
    /\ UNCHANGED <<exceptBoot, bootConfig>>

NoBoot == [pc |-> "start", rejected |-> FALSE, pairs |-> {}, polled |-> {},
           handed |-> {}]

\* ---- fetchFromAPI, the GET helper of dexapi.js ----

\* requests made in a run
MaxFetches == 3

\* times = 3: the retries a request starts with
FetchTimes == 3

\* the bodies the server may answer with
FetchData == {1, 2}

NoResult == [kind |-> "none", data |-> 0]

NoFetch == [pc |-> "idle", returnData |-> TRUE, times |-> 0, frames |-> 0,
            attempts |-> <<>>, result |-> NoResult]

\* what the outermost call returns once a nested call has returned: the value
\* of `await fetchFromAPI(...)` in the catch block is dropped and control
\* falls through to `return {}`; only the first attempt returns its own body
FetchReturn(frames, returnData, body) ==
    IF frames = 1
    THEN [kind |-> IF returnData THEN "data" ELSE "json", data |-> body]
    ELSE [kind |-> "empty", data |-> 0]

\* fetchFromAPI(root, path, returnData) is called
FetchFromAPI ==
    /\ fetchCall.pc \in {"idle", "returned", "raised"}
    /\ Len(fetchLog) < MaxFetches
    /\ \E returnData \in BOOLEAN :
          fetchCall' = [NoFetch EXCEPT !.pc = "attempt", !.returnData = returnData,
                                       !.times = FetchTimes, !.frames = 1]
    /\ UNCHANGED <<exceptFetch, fetchLog>>

\* await fetch(...); await response.json(): the attempt answers with a body,
\* or fails and the catch block either calls fetchFromAPI again with one
\* retry fewer or, with none left, throws through every nested call
FetchAttempt ==
    /\ fetchCall.pc = "attempt"
    /\ \E body \in FetchData \cup {0} :
        LET tried == Append(fetchCall.attempts, body)
        IN IF body # 0
           THEN LET result == FetchReturn(fetchCall.frames, fetchCall.returnData, body)
                IN /\ fetchCall' = [fetchCall EXCEPT !.pc = "returned",
                                                     !.attempts = tried,
                                                     !.result = result]
                   /\ fetchLog' = Append(fetchLog, result)
           ELSE IF fetchCall.times > 0
           THEN /\ fetchCall' = [fetchCall EXCEPT !.attempts = tried,
                                                  !.times = @ - 1,
                                                  !.frames = @ + 1]
                /\ UNCHANGED fetchLog
           ELSE /\ fetchCall' = [fetchCall EXCEPT
                                    !.pc = "raised", !.attempts = tried,
                                    !.result = [kind |-> "exception", data |-> 0]]
                /\ fetchLog' = Append(fetchLog, [kind |-> "exception", data |-> 0])
    /\ UNCHANGED exceptFetch

\* start-up is not modelled
BootOff ==
    /\ bootConfig = [strategy |-> "gridBot", pairs |-> [i \in BootPairIds |-> GridFields]]
    /\ boot = [NoBoot EXCEPT !.pc = "exited"]

\* no placeOrders caller is modelled
PlaceOff ==
    /\ rpcActions = <<>>
    /\ placeCall = NoCall
    /\ placeLog = NoPlaceLog
    /\ placeBudget = [calls |-> 0, faults |-> 0]

\* no request is modelled
FetchOff ==
    /\ fetchCall = NoFetch
    /\ fetchLog = <<>>

SideOff == PlaceOff /\ EventsOff /\ RunOff /\ QaOff /\ BootOff /\ FetchOff

\* the Spike engine before its process starts: nothing in memory, on the
\* exchange or in the temp file
SpikeDown ==
    /\ tmpFile = Absent
    /\ orderStateFile = Absent
    /\ pairStates = FreshStates
    /\ spikeBook = [n \in SpikePairIds |-> <<>>]
    /\ spikePhase = "down"
    /\ spikeCursor = 1
    /\ orderStateEntries = <<>>
    /\ lastLoad = NoLoad
    /\ lastSave = [outcome |-> "none", raised |-> FALSE, mem |-> FreshStates,
                   record |-> trackedFile]
    /\ lastShutdown = NoShutdown
    /\ spikeLast = [n \in SpikePairIds |-> NoSpikeIteration]
    /\ cancelledIds = {}

\* the Spike engine is not deployed
SpikeOff ==
    /\ stateEnv = "noStateDir"
    /\ trackedFile = Absent
    /\ spikeMarketKnown = [n \in SpikePairIds |-> FALSE]
    /\ spikeFillsLeft = 0
    /\ spikePollsLeft = 0
    /\ spikeFaultsLeft = 0
    /\ SpikeDown

\* the Grid engine is not deployed
GridOff ==
    /\ gridConfig = [i \in GridPairIds |->
                        [upperLimit |-> 17, lowerLimit |-> 1, gridLevels |-> 4,
                         bidAmountPerLevel |-> 40]]
    /\ gridPlacement = FALSE
    /\ gridMarketKnown = [i \in GridPairIds |-> FALSE]
    /\ oldOrders = [i \in GridPairIds |-> <<>>]
    /\ gridBook = [i \in GridPairIds |-> <<>>]
    /\ gridCursor = 1
    /\ gridLast = [i \in GridPairIds |-> NoIteration]
    /\ gridPrev = [i \in GridPairIds |-> "none"]
    /\ fillsLeft = 0

\* orders a record left on disk by an earlier run may hold
StoredOrders ==
    << [orderSide |-> "BUY", price |-> 99, quantity |-> 198,
        marketSymbol |-> "XBTC_XMD", orderId |-> 4, type |-> "spike"],
       [orderSide |-> "BUY", price |-> 99, quantity |-> 198,
        marketSymbol |-> "XPR_XMD", orderId |-> 1, type |-> "spike"],
       [orderSide |-> "SELL", price |-> 100, quantity |-> 20,
        marketSymbol |-> "XPR_XMD", orderId |-> NoOrderId, type |-> "takeProfit"],
       [orderSide |-> "SELL", price |-> 101, quantity |-> 20,
        marketSymbol |-> "XETH_XMD", orderId |-> 6, type |-> "spike"],
       [orderSide |-> "SELL", price |-> 101, quantity |-> 20,
        marketSymbol |-> "XPR_XMD", orderId |-> 2, type |-> "spike"],
       [orderSide |-> "BUY", price |-> 100, quantity |-> 200,
        marketSymbol |-> "XBTC_XMD", orderId |-> 5, type |-> "takeProfit"] >>

RECURSIVE Pick(_, _, _)
\* the elements of s whose index is in idx, in the order of s
Pick(s, idx, k) ==
    IF k > Len(s) THEN <<>>
    ELSE (IF k \in idx THEN <<s[k]>> ELSE <<>>) \o Pick(s, idx, k + 1)

\* the tracked-orders file an earlier run may have left: none, or a complete record
StoreFiles ==
    {Absent} \cup {TrackedRecord(Pick(StoredOrders, idx, 1)) :
                      idx \in SUBSET (1..Len(StoredOrders))}

\* what else may sit at the path of the file
DamagedFiles == {Partial, Corrupt, NoOrdersArray}

\* a Spike instance whose markets the exchange does not list, started over
\* what an earlier run left on disk
StoreInit ==
    /\ GridOff
    /\ stateEnv \in StateEnvs
    /\ trackedFile \in StoreFiles
    /\ ~Configured(stateEnv) => trackedFile = Absent
    /\ spikeMarketKnown = [n \in SpikePairIds |-> FALSE]
    /\ spikeFillsLeft = 0
    /\ spikePollsLeft = MaxPolls
    /\ spikeFaultsLeft = MaxFaults
    /\ SpikeDown
    /\ SideOff

\* the same, the file possibly damaged
LoadInit ==
    /\ GridOff
    /\ stateEnv \in StateEnvs
    /\ trackedFile \in StoreFiles \cup DamagedFiles
    /\ spikeMarketKnown = [n \in SpikePairIds |-> FALSE]
    /\ spikeFillsLeft = 0
    /\ spikePollsLeft = MaxPolls
    /\ spikeFaultsLeft = MaxFaults
    /\ SpikeDown
    /\ SideOff

StoreNext ==
    \/ \E n \in SpikePairIds : SpikeInvalidMarket(n)
    \/ SpikeSaveBegin
    \/ SpikeSaveWrite
    \/ SpikeSaveRename
    \/ SpikeCrash
    \/ SpikeInitialize
    \/ SpikeCancelOwnOrders

SpecStore == StoreInit /\ [][StoreNext]_vars

SpecLoad == LoadInit /\ [][StoreNext]_vars

\* a fresh Spike deployment
SpikeInit ==
    /\ GridOff
    /\ stateEnv \in StateEnvs
    /\ trackedFile = Absent
    /\ spikeMarketKnown = [n \in SpikePairIds |-> n = 1]
    /\ spikeFillsLeft = MaxSpikeFills
    /\ spikePollsLeft = MaxPolls
    /\ spikeFaultsLeft = MaxFaults
    /\ SpikeDown
    /\ SideOff

SpikeNext ==
    \/ \E n \in SpikePairIds : SpikeInvalidMarket(n)
    \/ \E n \in SpikePairIds : SpikeTradePair(n)
    \/ \E n \in SpikePairIds : SpikeExchangeFill(n)
    \/ SpikeSaveBegin
    \/ SpikeSaveWrite
    \/ SpikeSaveRename
    \/ SpikeCrash
    \/ SpikeInitialize
    \/ SpikeCancelOwnOrders

SpecSpike == SpikeInit /\ [][SpikeNext]_vars

\* a Spike deployment with persistence configured that runs long enough for a
\* second instance to warm up again after the first has placed and rebalanced
RestartPolls == MaxPolls + 2

RestartInit ==
    /\ GridOff
    /\ stateEnv = "both"
    /\ trackedFile = Absent
    /\ spikeMarketKnown = [n \in SpikePairIds |-> n = 1]
    /\ spikeFillsLeft = MaxSpikeFills
    /\ spikePollsLeft = RestartPolls
    /\ spikeFaultsLeft = MaxFaults
    /\ SpikeDown
    /\ SideOff

SpecRestart == RestartInit /\ [][SpikeNext]_vars

\* a Grid deployment
GridStart ==
    /\ GridInit
    /\ SpikeOff
    /\ SideOff

SpecGrid == GridStart /\ [][GridNext]_vars

\* a process that calls placeOrders a few times in a row
PlaceInit ==
    /\ GridOff
    /\ FetchOff
    /\ SpikeOff
    /\ BootOff
    /\ QaOff
    /\ EventsOff
    /\ RunOff
    /\ rpcActions = <<>>
    /\ placeCall = NoCall
    /\ placeLog = NoPlaceLog
    /\ placeBudget = [calls |-> MaxCalls, faults |-> MaxFaults]

PlaceNext ==
    \/ PlaceOrdersCall
    \/ PlaceStage
    \/ PlaceFlush
    \/ PlacePause

SpecPlace == PlaceInit /\ [][PlaceNext]_vars

\* an enabled notification sink with nothing queued
EventsInit ==
    /\ GridOff
    /\ FetchOff
    /\ SpikeOff
    /\ BootOff
    /\ QaOff
    /\ PlaceOff
    /\ RunOff
    /\ evQueue = <<>>
    /\ evBatch = <<>>
    /\ evRetryCount = 0
    /\ evProcessing = FALSE
    /\ evLog = NoEventLog
    /\ evTimer = TRUE
    /\ evBudget = [emits |-> MaxEvents, sends |-> MaxSends]

EventsNext ==
    \/ EventEmit
    \/ EventFlushTimer
    \/ EventShutdown
    \/ EventSent

SpecEvents == EventsInit /\ [][EventsNext]_vars

\* the sink with an endpoint that answers every send: no more than
\* maxRetries sends per emitted event are needed
EventsLiveInit ==
    /\ GridOff
    /\ FetchOff
    /\ SpikeOff
    /\ BootOff
    /\ QaOff
    /\ PlaceOff
    /\ RunOff
    /\ evQueue = <<>>
    /\ evBatch = <<>>
    /\ evRetryCount = 0
    /\ evProcessing = FALSE
    /\ evLog = NoEventLog
    /\ evTimer = TRUE
    /\ evBudget = [emits |-> MaxEvents, sends |-> MaxRetries * MaxEvents]

\* every awaited sendEvent returns, with true or with false
SpecEventsLive == EventsLiveInit /\ [][EventsNext]_vars /\ WF_vars(EventSent)

\* a process started with cancelOpenOrdersOnExit set and a strategy other
\* than the swapper
RunInit ==
    /\ GridOff
    /\ FetchOff
    /\ SpikeOff
    /\ BootOff
    /\ QaOff
    /\ PlaceOff
    /\ EventsOff
    /\ runConfig \in [tradeIntervalMS : TradeIntervals]
    /\ runner = [pc |-> "start", polls |-> 0, inFlight |-> 0, pair |-> 0,
                 stage |-> "fetch"]
    /\ runBook = {}
    /\ shutdown = [pc |-> "none", list |-> {}]
    /\ runLog = NoRunLog

RunNext ==
    \/ RunMain
    \/ RunDelayElapsed
    \/ RunPairFetched
    \/ RunPairSubmitted
    \/ SignalArrives
    \/ SignalListed
    \/ SignalCancelled

SpecRun == RunInit /\ [][RunNext]_vars

\* getQuantityAndAdjustedTotal called with any nonzero price, any total cost
\* and any precisions within the bounds
QaInit ==
    /\ GridOff
    /\ FetchOff
    /\ SpikeOff
    /\ BootOff
    /\ PlaceOff
    /\ EventsOff
    /\ RunOff
    /\ qaIn \in [price : ((0 - MaxQaPrice)..MaxQaPrice) \ {0},
                  totalCost : 1..MaxQaCost,
                  costPrecision : 0..MaxQaPrecision,
                  bidPrecision : 0..MaxQaPrecision,
                  askPrecision : 0..MaxQaPrecision]
    /\ qaOut = NoQaOut

QaNext == QaCompute

SpecQa == QaInit /\ [][QaNext]_vars

\* a process started on a configuration whose pairs may lack fields
BootInit ==
    /\ GridOff
    /\ FetchOff
    /\ SpikeOff
    /\ PlaceOff
    /\ EventsOff
    /\ RunOff
    /\ QaOff
    /\ \E strategy \in {"gridBot", "spikeBot"} :
          bootConfig \in [strategy : {strategy},
                          pairs : [BootPairIds -> SUBSET RequiredFields(strategy)]]
    /\ boot = NoBoot

BootNext ==
    \/ BootInitialize
    \/ BootUnhandledRejection
    \/ \E i \in BootPairIds : BootTradePair(i)

SpecBoot == BootInit /\ [][BootNext]_vars

FetchInit ==
    /\ GridOff
    /\ SpikeOff
    /\ PlaceOff
    /\ EventsOff
    /\ RunOff
    /\ QaOff
    /\ BootOff
    /\ fetchCall = NoFetch
    /\ fetchLog = <<>>

FetchNext ==
    \/ FetchFromAPI
    \/ FetchAttempt

SpecFetch == FetchInit /\ [][FetchNext]_vars

(***************************************************************************)
(* Claims about the Grid engine.                                           *)
(***************************************************************************)
\* the outcomes of the initial-placement branch
InitialBranches == {"nolevels", "aborted", "skipped", "placed", "placefailed"}

\* side, price and quantity of every order of a list
OrderKeys(orders) ==
    {<<orders[k].orderSide, orders[k].price, orders[k].quantity>> : k \in 1..Len(orders)}

\* the two lists hold the same orders (side, price, quantity), each as many times
SameOrders(a, b) ==
    /\ Len(a) = Len(b)
    /\ \A key \in OrderKeys(a) \cup OrderKeys(b) :
          Cardinality({k \in 1..Len(a) :
                         <<a[k].orderSide, a[k].price, a[k].quantity>> = key})
            = Cardinality({k \in 1..Len(b) :
                         <<b[k].orderSide, b[k].price, b[k].quantity>> = key})

\* C1: the orders an initial placement submits for a pair never exceed the
\* pair's gridLevels, whatever the configuration and the last trade price
C1_InitialPlacementWithinGridLevels ==
    \A i \in GridPairIds :
        gridLast[i].branch \in InitialBranches
            => Len(gridLast[i].submitted) =< gridConfig[i].gridLevels

\* an initial placement submitted a full ladder of gridLevels orders
C1_Witness ==
    \E i \in GridPairIds :
        /\ gridLast[i].branch = "placed"
        /\ Len(gridLast[i].submitted) = gridConfig[i].gridLevels

C3_AbortedPlacementRetried ==
    \A i \in GridPairIds :
        (gridPrev[i] = "aborted" /\ gridLast[i].branch # "error")
            => gridLast[i].branch \in InitialBranches

\* C4: a fill-detection pass over an open-order set equal to the tracked set
\* emits no fill event, submits no order and leaves the tracked set as it was
C4_FillDetectionIdempotent ==
    \A i \in GridPairIds :
        (/\ gridLast[i].branch \in {"fill", "fillfailed"}
         /\ SameOrders(gridLast[i].open, gridLast[i].before))
            => /\ gridLast[i].fills = <<>>
               /\ gridLast[i].submitted = <<>>
               /\ SameOrders(oldOrders[i], gridLast[i].before)

\* a fill-detection pass ran on an unchanged, non-empty open-order set
C4_Witness ==
    \E i \in GridPairIds :
        /\ gridLast[i].branch = "fill"
        /\ gridLast[i].before # <<>>
        /\ SameOrders(gridLast[i].open, gridLast[i].before)

(***************************************************************************)
(* Claims about tracked orders, the tracked-order store and shutdown.      *)
(***************************************************************************)
\* no two orders of the list have the same price and the same side
NoDuplicates(orders) ==
    \A j \in 1..Len(orders), k \in 1..Len(orders) :
        j # k => ~(/\ orders[j].price = orders[k].price
                   /\ orders[j].orderSide = orders[k].orderSide)

\* C5: for every pair, no two tracked orders have the same price and the same
\* side: in the Grid tracked list and in the Spike engine's spike and
\* take-profit collections
C5_NoDuplicateTrackedOrders ==
    /\ \A i \in GridPairIds : NoDuplicates(oldOrders[i])
    /\ \A n \in SpikePairIds :
          /\ NoDuplicates(pairStates[n].spikeOrders)
          /\ NoDuplicates(pairStates[n].takeProfitOrders)

\* C6: a fresh instance initialized over the record a completed persist left
\* holds, for every pair, the spike orders and the take-profit orders that were
\* in memory when the record was persisted
C6_PersistThenInitializeRoundTrip ==
    (/\ spikePhase = "initialized"
     /\ lastSave.outcome = "saved"
     /\ lastLoad.readOk)
        => \A n \in SpikePairIds :
              /\ pairStates[n].spikeOrders = lastSave.mem[n].spikeOrders
              /\ pairStates[n].takeProfitOrders = lastSave.mem[n].takeProfitOrders

\* a fresh instance was initialized over a persisted record with orders of both
\* roles for one pair and orders for the other pair
C6_Witness ==
    /\ spikePhase = "initialized"
    /\ lastSave.outcome = "saved"
    /\ lastLoad.readOk
    /\ lastSave.mem[1].spikeOrders # <<>>
    /\ lastSave.mem[1].takeProfitOrders # <<>>
    /\ lastSave.mem[2].spikeOrders # <<>>

\* C7: the tracked-orders file is always absent or one complete record, the
\* one saved last, also when the process stops in the middle of a save
C7_TrackedFileNeverPartial ==
    \/ trackedFile = Absent
    \/ trackedFile.kind = "record" /\ trackedFile = lastSave.record

\* the process stopped between the temp-file write and the rename
C7_Witness ==
    /\ spikePhase = "down"
    /\ lastSave.outcome = "writing"
    /\ tmpFile.kind = "record"
    /\ tmpFile # trackedFile

\* C8: loadTrackedOrders never raises; it returns the empty list when the
\* environment is not configured or the file is missing, unreadable, unparsable
\* or without an orders array, and the orders of the record otherwise
C8_LoadNeverRaises ==
    lastLoad.ran
        => /\ ~lastLoad.raised
           /\ spikePhase # "halted"
           /\ (\/ ~Configured(stateEnv)
               \/ ~lastLoad.readOk
               \/ lastLoad.file.kind # "record") => lastLoad.orders = <<>>
           /\ lastLoad.orders # <<>> => lastLoad.orders = lastLoad.file.orders

\* loadTrackedOrders ran on a file that cannot be parsed
C8_Witness ==
    /\ lastLoad.ran
    /\ Configured(stateEnv)
    /\ lastLoad.readOk
    /\ lastLoad.file \in {Partial, Corrupt}

\* C9: saveTrackedOrders never raises; without a configured environment it
\* writes nothing; whatever its outcome the poll completes with the tracked
\* orders it had when the save began
C9_PersistenceNeverFatal ==
    /\ ~lastSave.raised
    /\ spikePhase # "halted"
    /\ ~Configured(stateEnv) => trackedFile = Absent /\ tmpFile = Absent
    /\ (spikePhase = "ready"
        /\ lastSave.outcome \in {"saved", "failed", "unconfigured"})
           => pairStates = lastSave.mem

\* a poll that tracks orders completed although its save failed
C9_Witness ==
    /\ spikePhase = "ready"
    /\ lastSave.outcome = "failed"
    /\ \E n \in SpikePairIds : pairStates[n].spikeOrders # <<>>

\* a tracked order with an id that still rests on the exchange
Resting(order) ==
    /\ order.orderId # NoOrderId
    /\ \E n \in SpikePairIds : order.orderId \in BookIds(spikeBook[n])

\* C10: when cancelOwnOrders has deleted the tracked-orders record, none of
\* the orders it tracked rests on the exchange any more
C10_RecordDeletedOnlyWhenCancelled ==
    (spikePhase = "stopped" /\ lastShutdown.deleted)
        => \A k \in 1..Len(lastShutdown.tracked) : ~Resting(lastShutdown.tracked[k])

\* the instance now running was started while orders of an earlier run rested
Restarted == lastLoad.ran /\ lastLoad.resting # {}

\* C11: after a stop during a poll and a restart from the record on disk, a
\* pair iteration that places a ladder leaves no order of the earlier run
\* resting untracked on the pair, and it reports no fill for an order that was
\* cancelled rather than filled
C11_RestartNeitherDoublePlacesNorLosesTrack ==
    \A n \in SpikePairIds :
        (Restarted /\ spikePhase \in {"polling", "persist"}
                   /\ spikeLast[n].branch \in {"traded", "error"})
            => /\ spikeLast[n].ladder # <<>>
                    => (lastLoad.resting \cap BookIds(spikeBook[n]))
                          \subseteq TrackedIds(pairStates[n].spikeOrders
                                                 \o pairStates[n].takeProfitOrders)
               /\ \A k \in 1..Len(spikeLast[n].fills) :
                      spikeLast[n].fills[k].orderId \notin cancelledIds

\* the in-memory state of a pair that has recovered nothing and placed nothing
FreshPair(state) ==
    /\ state.spikeOrders = <<>>
    /\ state.takeProfitOrders = <<>>
    /\ state.lastOrderMA = 0

\* the step is the iteration of pair n in a poll
IteratesPair(n) == PollingAt(n) /\ spikeLast'[n] # spikeLast[n]

SidesOf(orders, side) == {k \in 1..Len(orders) : orders[k].orderSide = side}

\* C12: on a fresh instance with a known market, a poll that starts with fewer
\* than W - 1 prices in the window submits and cancels nothing; the poll that
\* fetches the W-th price sets the moving average from exactly the W prices
\* fetched so far and, no call failing, submits 2 * levels orders: levels BUY
\* and levels SELL
C12_WarmUpThenFirstLadder ==
    [][\A n \in SpikePairIds :
        (IteratesPair(n) /\ spikeMarketKnown[n] /\ FreshPair(pairStates[n]))
          => /\ Len(pairStates[n].priceHistory) < MaWindow - 1
                  => /\ spikeBook' = spikeBook
                     /\ cancelledIds' = cancelledIds
                     /\ spikeLast'[n].placed = <<>>
                     /\ FreshPair(pairStates'[n])
             /\ (/\ Len(pairStates[n].priceHistory) = MaWindow - 1
                 /\ spikeFaultsLeft' = spikeFaultsLeft)
                  => /\ \E p \in SpikePrices :
                          pairStates'[n].priceHistory
                              = Append(pairStates[n].priceHistory, p)
                     /\ pairStates'[n].currentMA
                          = CalculateMA(pairStates'[n].priceHistory)
                     /\ spikeLast'[n].placed = spikeLast'[n].ladder
                     /\ Len(spikeLast'[n].ladder) = 2 * SpikeConfig.levels
                     /\ Cardinality(SidesOf(spikeLast'[n].ladder, "BUY"))
                          = SpikeConfig.levels
                     /\ Cardinality(SidesOf(spikeLast'[n].ladder, "SELL"))
                          = SpikeConfig.levels
                     /\ Len(pairStates'[n].spikeOrders) = 2 * SpikeConfig.levels
    ]_vars

\* poll W of a fresh instance has placed its ladder
C12_Witness ==
    /\ spikeLast[1].branch = "traded"
    /\ FreshPair(spikeLast[1].before)
    /\ Len(spikeLast[1].before.priceHistory) = MaWindow - 1
    /\ Len(spikeLast[1].ladder) = 2 * SpikeConfig.levels
    /\ lastLoad.orders = <<>>

\* the orders of a tracked list, without their ids
Untracked(orders) ==
    [k \in 1..Len(orders) |->
        [orderSide |-> orders[k].orderSide, price |-> orders[k].price,
         quantity |-> orders[k].quantity, marketSymbol |-> orders[k].marketSymbol]]

\* C13: in a pair iteration that starts with lastOrderMA > 0, keeps spike
\* orders after fill detection and in which no call fails, the engine
\* rebalances exactly when 100 * |currentMA - lastOrderMA| exceeds
\* rebalanceThresholdPct * lastOrderMA; a rebalance cancels every listed open
\* order, leaves no take-profit tracked, tracks a fresh ladder built around
\* currentMA and sets lastOrderMA to currentMA; otherwise the spike orders
\* kept by fill detection and lastOrderMA stay as they are
C13_RebalanceIffDriftAboveThreshold ==
    [][\A n \in SpikePairIds :
        (/\ IteratesPair(n)
         /\ spikeLast'[n].branch = "traded"
         /\ spikeFaultsLeft' = spikeFaultsLeft
         /\ pairStates[n].lastOrderMA > 0
         /\ Len(spikeLast'[n].fills) < Len(pairStates[n].spikeOrders))
          => LET done == spikeLast'[n]
                 after == pairStates'[n]
                 Open(t) == StillOpen(t, done.open)
                 kept == SelectSeq(pairStates[n].spikeOrders, Open)
                 drifted == 100 * Abs(after.currentMA - pairStates[n].lastOrderMA)
                              > RebalanceThresholdPct * pairStates[n].lastOrderMA
             IN /\ done.rebalanced <=> drifted
                /\ drifted
                     => /\ BookIds(done.open) \subseteq cancelledIds'
                        /\ BookIds(done.open) \cap BookIds(spikeBook'[n]) = {}
                        /\ after.takeProfitOrders = <<>>
                        /\ done.ladder
                             = BuildSpikeOrders(SpikeSymbols[n], after.currentMA,
                                                SpikeConfig)
                        /\ done.ladder # <<>>
                        /\ Untracked(after.spikeOrders) = done.ladder
                        /\ TrackedIds(after.spikeOrders) \cap BookIds(done.open) = {}
                        /\ after.lastOrderMA = after.currentMA
                /\ ~drifted
                     => /\ after.spikeOrders = kept
                        /\ after.lastOrderMA = pairStates[n].lastOrderMA
                        /\ done.ladder = <<>>
                        /\ done.cancelled = {}
    ]_vars

\* a poll has rebalanced: the old ladder is cancelled and a new one is tracked
C13_Witness ==
    /\ spikeLast[1].branch = "traded"
    /\ spikeLast[1].rebalanced
    /\ spikeLast[1].before.lastOrderMA > 0
    /\ spikeLast[1].cancelled # {}
    /\ spikeLast[1].ladder # <<>>
    /\ pairStates[1].lastOrderMA = pairStates[1].currentMA

\* C14 as stated: a pair iteration in which a call threw, a cancellation
\* included, has emitted exactly one error event
C14_OneErrorEventPerFailingPair ==
    \A n \in SpikePairIds :
        (spikeLast[n].error \/ spikeLast[n].cancelFailed)
            => ErrorEvents(spikeLast[n]) = 1

\* C14, amended: a pair iteration that a throwing call aborts emits exactly
\* one error event, an iteration that nothing aborts emits none (a failed
\* cancellation is caught and logged inside cancelPairOrders and aborts
\* nothing), and either way trade() does not raise and goes on to the next
\* pair, or to the persist step after the last one
C14_FailingPairIsIsolated ==
    [][\A n \in SpikePairIds :
        IteratesPair(n)
          => LET done == spikeLast'[n]
             IN /\ done.branch = "error" <=> done.error
                /\ done.error => ErrorEvents(done) = 1
                /\ (done.cancelFailed /\ ~done.error)
                      => ErrorEvents(done) = 0 /\ done.branch = "traded"
                /\ spikePhase' # "halted"
                /\ IF n < Len(SpikeSymbols)
                   THEN spikePhase' = "polling" /\ spikeCursor' = n + 1
                   ELSE spikePhase' = "persist"
    ]_vars

\* the first pair's iteration was aborted by a throwing call and the second
\* pair has been iterated after it
C14_Witness ==
    /\ spikeLast[1].branch = "error"
    /\ spikeLast[1].before.lastOrderMA > 0
    /\ spikeLast[2].branch = "invalid"
    /\ spikePhase = "persist"

\* ceil(n / 10)
CeilDiv(n, d) == (n + d - 1) \div d

\* C15: a placeOrders call with n orders stages orders 1, 2, ... each once and
\* in list order; it flushes after the 10th, 20th, ... and after the last
\* order, each flush covering at most 10 orders and each followed by a pause
\* before the next order is staged; a call that returns has staged all n
\* orders and flushed ceil(n / 10) times, and nothing at all when n = 0
C15_BatchesOfTen ==
    LET staged == placeLog.staged
        flushes == placeLog.flushes
    IN /\ staged = [k \in 1..Len(staged) |-> k]
       /\ Len(staged) <= placeCall.n
       /\ \A f \in 1..Len(flushes) :
             /\ Len(flushes[f]) <= BatchSize
             /\ Len(flushes[f]) > 0
             /\ flushes[f][Len(flushes[f])].index = MinOf({BatchSize * f, placeCall.n})
       /\ placeCall.pc = "stage" => placeLog.pauses = Len(flushes)
       /\ placeCall.pc = "returned"
             => /\ Len(staged) = placeCall.n
                /\ Len(flushes) = CeilDiv(placeCall.n, BatchSize)
                /\ placeLog.pauses = Len(flushes)

\* C16: no event is sent more than maxRetries times, and an event that was
\* dropped had failed maxRetries times itself
C16_ThreeAttemptsPerEvent ==
    \A e \in EventIds :
        /\ evLog.attempts[e] <= MaxRetries
        /\ e \in evLog.dropped => evLog.attempts[e] = MaxRetries

\* C17: when the process has exited on a signal that arrived during a poll,
\* that poll had run to completion, it submitted nothing after the handler
\* had listed the orders to cancel, and no order of the process rests
C17_PollCompletesBeforeShutdown ==
    (runner.pc = "exited" /\ runLog.signalledInPoll)
        => /\ ~runLog.aborted
           /\ ~runLog.lateSubmit
           /\ runBook = {}

OnDisk(n, role) ==
    LET Mine(o) == o.marketSymbol = SpikeSymbols[n] /\ o.type = role
        mine == SelectSeq(trackedFile.orders, Mine)
    IN [k \in 1..Len(mine) |-> Loaded(mine[k])]

\* C19: when trade() has returned and its save went through, the record on
\* disk holds, pair by pair and role by role, exactly the orders of the spike
\* and take-profit collections in memory, and no other order
C19_RecordMatchesMemoryAfterPoll ==
    (spikePhase = "ready" /\ lastSave.outcome = "saved")
        => /\ trackedFile.kind = "record"
           /\ \A n \in SpikePairIds :
                 /\ OnDisk(n, "spike") = pairStates[n].spikeOrders
                 /\ OnDisk(n, "takeProfit") = pairStates[n].takeProfitOrders
           /\ Len(trackedFile.orders)
                 = Len(OwnOrdersFrom(pairStates, 1))

\* a poll whose first pair was aborted by an exception while it tracked
\* orders, and whose second pair was skipped, has saved its record
C19_Witness ==
    /\ spikePhase = "ready"
    /\ lastSave.outcome = "saved"
    /\ spikeLast[1].branch = "error"
    /\ spikeLast[2].branch = "invalid"
    /\ pairStates[1].spikeOrders # <<>>

C21_IncompletePairFailsFast ==
    \A i \in BootPairIds :
        (boot.pc # "start" /\ ~Complete(bootConfig.strategy, bootConfig.pairs[i]))
            => /\ boot.rejected
               /\ i \notin boot.handed

\* the take-profit orders a pair iteration handed to placeOrders: what it
\* placed before the ladder
PlacedTakeProfits(done) == SubSeq(done.placed, 1, Len(done.placed) - Len(done.ladder))

\* an order of the book with the price and side of the order
RestsOn(book, order) ==
    \E j \in 1..Len(book) :
        /\ book[j].price = order.price
        /\ book[j].order_side = order.orderSide

\* C22: in a pair iteration that runs to its end, a take-profit order
\* reported as filled does not rest on the exchange, and a take-profit order
\* placed in the iteration that still rests is tracked in the take-profit
\* collection afterwards (unless a rebalance has cleared the collections)
C22_TakeProfitFilledOnlyWhenGone ==
    [][\A n \in SpikePairIds :
        (IteratesPair(n) /\ spikeLast'[n].branch = "traded")
          => LET done == spikeLast'[n]
                 tps == PlacedTakeProfits(done)
             IN /\ \A k \in 1..Len(done.tpFills) :
                      IF done.tpFills[k].orderId # NoOrderId
                      THEN done.tpFills[k].orderId \notin BookIds(spikeBook'[n])
                      ELSE ~RestsOn(spikeBook'[n], done.tpFills[k])
                /\ ~done.rebalanced
                      => \A k \in 1..Len(tps) :
                            RestsOn(spikeBook'[n], tps[k])
                               => \E t \in 1..Len(pairStates'[n].takeProfitOrders) :
                                     /\ pairStates'[n].takeProfitOrders[t].price
                                           = tps[k].price
                                     /\ pairStates'[n].takeProfitOrders[t].orderSide
                                           = tps[k].orderSide
    ]_vars

\* C23: a tracked spike order that a pair iteration treats as filled was
\* absent from the open orders of the pair when the iteration listed them: no
\* order with its id rested when it has one, no order with its price and
\* side otherwise
C23_SpikeFilledOnlyWhenAbsent ==
    [][\A n \in SpikePairIds :
        IteratesPair(n)
          => \A k \in 1..Len(spikeLast'[n].fills) :
                LET filled == spikeLast'[n].fills[k]
                IN IF filled.orderId # NoOrderId
                   THEN filled.orderId \notin BookIds(spikeBook[n])
                   ELSE ~RestsOn(spikeBook[n], filled)
    ]_vars

C25_LadderOnlyWhenNothingTracked ==
    [][\A n \in SpikePairIds :
        IteratesPair(n)
          => LET done == spikeLast'[n]
                 Open(t) == StillOpen(t, done.open)
                 kept == SelectSeq(pairStates[n].spikeOrders, Open)
             IN /\ done.ladder # <<>>
                     => /\ Len(pairStates'[n].priceHistory) = MaWindow
                        /\ kept = <<>> \/ done.rebalanced
                        /\ done.cancelled = BookIds(done.open) \/ done.cancelFailed
                        /\ done.cancelled \cap BookIds(spikeBook'[n]) = {}
                /\ (kept # <<>> /\ ~done.rebalanced)
                     => /\ done.ladder = <<>>
                        /\ Len(done.placed) <= Len(done.fills)
                        /\ \A k \in 1..Len(done.placed) :
                              done.placed[k].price = MaPrice(pairStates'[n].currentMA)
                        /\ ~done.error => done.cancelled = {}
    ]_vars

\* an iteration that tracked no spike order found orders of an earlier
\* placement in its listing, cancelled them and placed a ladder
C25_Witness ==
    /\ spikeLast[1].ladder # <<>>
    /\ spikeLast[1].before.spikeOrders = <<>>
    /\ spikeLast[1].open # <<>>
    /\ spikeLast[1].cancelled = BookIds(spikeLast[1].open)
    /\ ~spikeLast[1].rebalanced

\* C26: a price window never holds more than maWindow prices; a pair
\* iteration either fetches no price and leaves the window alone, or appends
\* the fetched price and, when the window was full, drops its oldest price;
\* an iteration that goes past the warm-up has a full window, its moving
\* average is the mean of exactly the maWindow prices of the window (kept
\* as their sum), and a ladder it places is built around that average
C26_WindowIsFifoOfLatestPrices ==
    /\ [](\A n \in SpikePairIds : Len(pairStates[n].priceHistory) <= MaWindow)
    /\ [][\A n \in SpikePairIds :
            IteratesPair(n)
              => LET before == pairStates[n].priceHistory
                     after == pairStates'[n].priceHistory
                     done == spikeLast'[n]
                     Pushed(p) == IF Len(before) < MaWindow THEN Append(before, p)
                                  ELSE Append(Tail(before), p)
                 IN /\ after = before \/ \E p \in SpikePrices : after = Pushed(p)
                    /\ done.branch = "invalid" => after = before
                    /\ done.branch \in {"warmup", "traded"}
                          => \E p \in SpikePrices : after = Pushed(p)
                    /\ done.branch = "warmup" <=> (after # before /\ Len(after) < MaWindow)
                    /\ done.branch = "traded"
                          => /\ Len(after) = MaWindow
                             /\ pairStates'[n].currentMA = SumSeq(after)
                             /\ done.ladder # <<>>
                                   => done.ladder = BuildSpikeOrders(SpikeSymbols[n],
                                                        SumSeq(after), SpikeConfig)
       ]_vars

\* a poll on a full window has evicted the oldest price, which differed from
\* the one that is now the oldest
C26_Witness ==
    /\ spikeLast[1].branch = "traded"
    /\ Len(spikeLast[1].before.priceHistory) = MaWindow
    /\ pairStates[1].priceHistory[1] # spikeLast[1].before.priceHistory[1]
    /\ pairStates[1].priceHistory[1] = spikeLast[1].before.priceHistory[2]
    /\ spikePhase = "polling"

\* C27: the spike and the take-profit collection of a pair never hold the
\* same exchange order id, nor an order without id whose price and side
\* also appear in the other collection
C27_SpikeAndTakeProfitDisjoint ==
    \A n \in SpikePairIds :
        LET spike == pairStates[n].spikeOrders
            takeProfit == pairStates[n].takeProfitOrders
        IN /\ TrackedIds(spike) \cap TrackedIds(takeProfit) = {}
           /\ \A j \in 1..Len(spike), k \in 1..Len(takeProfit) :
                 (spike[j].orderId = NoOrderId \/ takeProfit[k].orderId = NoOrderId)
                    => ~(/\ spike[j].price = takeProfit[k].price
                         /\ spike[j].orderSide = takeProfit[k].orderSide)

\* C28: after an initial placement of a Grid pair that was aborted (low
\* balance, a ladder longer than maxGrids, or a failed submission) the pair
\* tracks no order
C28_AbortedPlacementTracksNothing ==
    \A i \in GridPairIds :
        gridLast[i].branch \in {"aborted", "skipped", "placefailed"}
            => oldOrders[i] = <<>>

\* C29: every transaction sent by a placeOrders call holds exactly the orders
\* that call staged since its previous transaction, at most 10 of them, and
\* no order staged by an earlier call
C29_TransactionHoldsOwnBatchOnly ==
    \A f \in 1..Len(placeLog.flushes) :
        LET first == BatchSize * (f - 1) + 1
            last == MinOf({BatchSize * f, placeCall.n})
        IN placeLog.flushes[f] =
              [k \in 1..(last - first + 1) |->
                  [call |-> placeCall.id, index |-> first + k - 1]]

\* the prices of the orders of one side in a working set
PricesOfSide(working, side) ==
    {working[k].price : k \in {m \in 1..Len(working) : working[m].orderSide = side}}

\* the price the counter-order of a filled order has, given the working set
ExpectedCounterPrice(cfg, placement, filled, working) ==
    IF filled.orderSide = "BUY"
    THEN IF PricesOfSide(working, "SELL") = {} \/ placement
         THEN filled.price + GridPrice(cfg)
         ELSE MinOf(PricesOfSide(working, "SELL")) - GridPrice(cfg)
    ELSE IF PricesOfSide(working, "BUY") = {} \/ placement
         THEN filled.price - GridPrice(cfg)
         ELSE MaxOf(PricesOfSide(working, "BUY")) + GridPrice(cfg)

\* the tracked orders of `before` that have no open order at their price
FoundFilled(before, open) ==
    SelectSeq(before, LAMBDA o : \A k \in 1..Len(open) : open[k].price # o.price)

\* the fills and the counter-orders of a pass agree with the statement: one
\* counter-order per filled order, on the opposite side, at the stated price
OneCounterPerFill(cfg, placement, before, open, fills, counters) ==
    /\ fills = FoundFilled(before, open)
    /\ Len(counters) = Len(fills)
    /\ \A k \in 1..Len(fills) :
          LET working == open \o SubSeq(counters, 1, k - 1)
          IN /\ counters[k].orderSide # fills[k].orderSide
             /\ counters[k].price
                   = ExpectedCounterPrice(cfg, placement, fills[k], working)

UnmatchedByPriceAndSide(before, open) ==
    SelectSeq(before, LAMBDA o :
        \A k \in 1..Len(open) :
            ~(open[k].price = o.price /\ open[k].orderSide = o.orderSide))

\* C31: in a Grid fill-detection pass the tracked orders treated as filled are
\* exactly those that no live open order matches by price and side; a live
\* order of the same price and the opposite side is no match
C31_FilledIffNoMatchByPriceAndSide ==
    \A i \in GridPairIds :
        gridLast[i].branch \in {"fill", "fillfailed"}
            => gridLast[i].fills
                  = UnmatchedByPriceAndSide(gridLast[i].before, gridLast[i].open)

\* a step that is the iteration of Grid pair i
IteratesGridPair(i) ==
    /\ gridCursor = i
    /\ <<gridLast, gridPrev, oldOrders>>' # <<gridLast, gridPrev, oldOrders>>

\* C32: a poll of a Grid pair that has tracked orders and whose listing is
\* empty or holds at least gridLevels orders submits nothing, emits no fill
\* event and leaves the tracked orders as they were; a fill-detection pass
\* runs only on a listing of more than 0 and fewer than gridLevels orders
C32_NoPassOutsideOpenOrderRange ==
    [][\A i \in GridPairIds :
          IteratesGridPair(i)
             => /\ (/\ oldOrders[i] # <<>>
                    /\ \/ Len(gridBook[i]) = 0
                       \/ Len(gridBook[i]) >= gridConfig[i].gridLevels)
                      => /\ gridBook' = gridBook
                         /\ oldOrders' = oldOrders
                         /\ gridLast'[i].fills = <<>>
                         /\ gridLast'[i].submitted = <<>>
                         /\ gridLast'[i].branch \notin {"fill", "fillfailed"}
                /\ gridLast'[i].branch \in {"fill", "fillfailed"}
                      => /\ oldOrders[i] # <<>>
                         /\ Len(gridLast'[i].open) > 0
                         /\ Len(gridLast'[i].open) < gridConfig[i].gridLevels]_vars

\* a poll has just skipped a pair whose listing holds gridLevels orders or more
C32_Witness ==
    \E i \in GridPairIds :
        /\ gridLast[i].branch = "idle"
        /\ gridLast[i].before # <<>>
        /\ Len(gridLast[i].open) >= gridConfig[i].gridLevels

\* the branches of a poll that built the initial ladder of a pair
LadderBranches == {"placed", "aborted", "skipped", "placefailed"}

\* C33: every order of the initial Grid ladder is at least gridPrice / 2 away
\* from the last trade price, a SELL exactly when priced above it and a BUY
\* exactly when priced below it; no order sits at the last trade price and
\* every SELL is priced strictly above every BUY
C33_LadderKeepsClearOfLastPrice ==
    \A i \in GridPairIds :
        gridLast[i].branch \in LadderBranches
            => LET ladder == oldOrders[i]
                   last == gridLast[i].lastSalePrice
               IN /\ \A k \in 1..Len(ladder) :
                        /\ 2 * Abs(ladder[k].price - last) >= GridPrice(gridConfig[i])
                        /\ ladder[k].orderSide = "SELL" <=> ladder[k].price > last
                        /\ ladder[k].orderSide = "BUY" <=> ladder[k].price < last
                        /\ ladder[k].price # last
                  /\ \A j \in 1..Len(ladder), k \in 1..Len(ladder) :
                        (ladder[j].orderSide = "SELL" /\ ladder[k].orderSide = "BUY")
                            => ladder[j].price > ladder[k].price

\* a ladder with orders on both sides was built, and a level was left out
C33_Witness ==
    \E i \in GridPairIds :
        /\ gridLast[i].branch = "placed"
        /\ \E j \in 1..Len(oldOrders[i]), k \in 1..Len(oldOrders[i]) :
              oldOrders[i][j].orderSide = "SELL" /\ oldOrders[i][k].orderSide = "BUY"
        /\ Len(oldOrders[i]) < gridLast[i].maxGrids + 1

\* the spend of a counter BUY sized from the inflated amount:
\* calculatedPurchaseSpread = (gridPrice / filled.price * 100 - 0.1) / 2 + 0.1,
\* adjustedBidAmountPerLevel = bidAmountPerLevel * (1 + calculatedPurchaseSpread / 100),
\* adjustedTotal = (adjustedBidAmountPerLevel * buyPrice).toFixed(askPrecision)
InflatedTotal(cfg, filledPrice, buyPrice) ==
    RoundHalfUpDiv(cfg.bidAmountPerLevel * buyPrice
                      * (2001 * filledPrice + 1000 * GridPrice(cfg)),
                   2000 * filledPrice * Pow10(BidPrecision))

\* C34: the counter BUY submitted for a filled SELL commits the spend computed
\* from the configured bidAmountPerLevel inflated by
\* ((gridPrice / filled.price * 100 - 0.1) / 2 + 0.1) percent
C34_CounterBuySizedFromInflatedAmount ==
    \A i \in GridPairIds :
        gridLast[i].branch = "fill"
            => \A k \in 1..Len(gridLast[i].fills) :
                  gridLast[i].fills[k].orderSide = "SELL"
                     => gridLast[i].submitted[k].quantity
                           = InflatedTotal(gridConfig[i], gridLast[i].fills[k].price,
                                           gridLast[i].submitted[k].price)

\* C35: a request makes at most 3 further attempts after the first; when an
\* attempt succeeds the caller receives the body that attempt returned, and
\* the caller receives an exception only when every attempt failed
C35_CallerReceivesDataOfSuccessfulAttempt ==
    /\ Len(fetchCall.attempts) <= FetchTimes + 1
    /\ fetchCall.pc = "returned"
          => /\ fetchCall.result.kind \in {"data", "json"}
             /\ fetchCall.result.data = fetchCall.attempts[Len(fetchCall.attempts)]
    /\ fetchCall.pc = "raised"
          => /\ Len(fetchCall.attempts) = FetchTimes + 1
             /\ \A k \in 1..Len(fetchCall.attempts) : fetchCall.attempts[k] = 0

\* C36: a tracked Grid order gives rise to at most one fill event: an order
\* that one poll of a pair reported filled is not reported filled again by
\* the next poll of that pair, also when the submission of its counter-order
\* failed
C36_NoSecondFillEventForAnOrder ==
    [][\A i \in GridPairIds :
          IteratesGridPair(i)
             => SeqToSet(gridLast'[i].fills) \cap SeqToSet(gridLast[i].fills) = {}]_vars

\* C37: every tracked BUY of a Grid pair is priced strictly below every
\* tracked SELL of that pair
C37_TrackedBuysBelowTrackedSells ==
    \A i \in GridPairIds :
        \A j \in 1..Len(oldOrders[i]), k \in 1..Len(oldOrders[i]) :
            (oldOrders[i][j].orderSide = "BUY" /\ oldOrders[i][k].orderSide = "SELL")
                => oldOrders[i][j].price < oldOrders[i][k].price

\* C38: a Grid pair whose tracked list is non-empty keeps it non-empty, and no
\* later poll of the pair takes the initial-placement branch again, whatever
\* the listings are
C38_TrackedListNeverEmptiedAgain ==
    [][\A i \in GridPairIds :
          oldOrders[i] # <<>>
             => /\ oldOrders'[i] # <<>>
                /\ IteratesGridPair(i)
                      => gridLast'[i].branch \notin LadderBranches \cup {"nolevels"}]_vars

\* a pair with tracked orders was polled while none of its orders was listed
C38_Witness ==
    \E i \in GridPairIds :
        /\ gridLast[i].branch = "idle"
        /\ gridLast[i].open = <<>>
        /\ gridLast[i].before # <<>>
        /\ oldOrders[i] = gridLast[i].before

\* C39: every flush of the notification queue that has started returns, and
\* when it returns the queue is empty and the processing flag is cleared
C39_FlushTerminatesWithEmptyQueue ==
    /\ evProcessing ~> ~evProcessing
    /\ [][(evProcessing /\ ~evProcessing')
             => (evQueue' = <<>> /\ evBatch' = <<>>)]_vars

\* a flush has returned after the endpoint had failed: an event was dropped,
\* nothing waits and the flag is cleared
C39_Witness ==
    /\ ~evProcessing
    /\ evQueue = <<>>
    /\ evLog.dropped # {}
    /\ evLog.delivered # {}

EmittedEvents == 1..(MaxEvents - evBudget.emits)

\* C40: at most one flush loop runs at any time, no event is delivered
\* successfully more than once, and every emitted event is in exactly one
\* place: waiting in the queue, in the batch of the running loop, delivered,
\* or dropped after the retries
C40_SingleFlushLoopSingleDelivery ==
    /\ evLog.loops <= 1
    /\ evLog.loops = (IF evProcessing THEN 1 ELSE 0)
    /\ \A e \in EventIds : evLog.deliveries[e] <= 1
    /\ LET pending == evBatch \o evQueue
       IN /\ \A k, l \in 1..Len(pending) : pending[k] = pending[l] => k = l
          /\ SeqToSet(pending) \cap (evLog.delivered \cup evLog.dropped) = {}
          /\ SeqToSet(pending) \cup evLog.delivered \cup evLog.dropped = EmittedEvents

\* flush() was called by a high-priority emit or by shutdown while a flush
\* was running, the timer is cleared, an event emitted meanwhile waits in the
\* queue and an earlier one has been delivered
C40_Witness ==
    /\ evLog.overlapped
    /\ ~evTimer
    /\ evProcessing
    /\ evBatch # <<>>
    /\ evQueue # <<>>
    /\ evLog.delivered # {}

====
